---- MODULE Spec2Model ----
(***************************************************************************)
(* A model of ts-action-intention: the Crypto class (hybrid RSA-OAEP /     *)
(* AES-GCM encryption, RSA-PSS signatures), the localStorage key store,    *)
(* the HTTP clients of the key and routing services, and the               *)
(* LocalStorageProvider that keeps the application state.                  *)
(*                                                                         *)
(* The Web Crypto primitives are modelled symbolically: a byte produced by *)
(* a primitive records which primitive produced it, under which key, nonce *)
(* and message, and its position in the output. A primitive's inverse      *)
(* succeeds only on a byte sequence that is, byte for byte, a whole output *)
(* of the primitive under the matching key. Everything the repository's    *)
(* own code does with those bytes (framing, slicing, parameters, error     *)
(* propagation) is modelled as written.                                    *)
(***************************************************************************)
EXTENDS Integers, Sequences, FiniteSets, TLC

VARIABLES
    pairs,          \* the CryptoKeyPairs generated so far, in generation order
    nextId,         \* source of fresh key material (RSA moduli and AES keys)
    encs,           \* the Crypto.encrypt calls and their outcomes, in call order
    lastDec,        \* the latest Crypto.decrypt call and its outcome (at most one)
    sigs,           \* the Crypto.sign calls and their outcomes, in call order
    lastVer,        \* the latest Crypto.verify call and its outcome (at most one)
    localStorage,   \* the page's localStorage: the stored string of each name in use
    calls,          \* the key store calls made, in call order, each with its locals
    consoleErrors,  \* how many times console.error has been called
    keyStore,       \* the key service's keyStore: the key bytes of each identity
    requests,       \* the HTTP client calls made, in call order, each with its locals
    fileCalls       \* the LocalStorageProvider calls made, in call order, with their outcomes

cryptoLog == <<encs, lastDec, sigs, lastVer>>
storeVars == <<localStorage, calls, consoleErrors>>
netVars == <<keyStore, requests>>
vars == <<pairs, nextId, encs, lastDec, sigs, lastVer, localStorage, calls, consoleErrors,
          keyStore, requests, fileCalls>>

(***************************************************************************)
(* Bounds of the model.                                                    *)
(***************************************************************************)
MaxPairs == 2       \* key pairs generated in one behaviour
MaxLen == 1         \* longest plaintext / signed data, in bytes
MaxByte == 1        \* plaintext byte values are 0..MaxByte
MaxEnc == 2         \* encrypt calls in one behaviour
MaxSig == 2         \* sign calls in one behaviour
MaxNonce == 1       \* outcomes of one random draw are 0..MaxNonce
MaxCalls == 3       \* key store calls (and outside writes) in one behaviour
MaxSealed == 1      \* messages encrypted and signed where both are in use
MaxRequests == 3    \* HTTP client calls in one behaviour
MaxFileCalls == 3   \* LocalStorageProvider file calls in one behaviour

(***************************************************************************)
(* Bytes and byte arrays (Uint8Array / ArrayBuffer).                       *)
(***************************************************************************)
Byte(t, k, n, m, s, i) == [t |-> t, k |-> k, n |-> n, m |-> m, s |-> s, i |-> i]

\* An ordinary byte of value v.
Lit(v) == Byte("lit", 0, 0, 0, 0, v)

\* new Uint8Array(len): zero-filled.
Uint8Array(len) == [j \in 1..len |-> Lit(0)]

Min(a, b) == IF a < b THEN a ELSE b
Max(a, b) == IF a > b THEN a ELSE b

\* TypedArray.prototype.slice(begin, end) and slice(begin), on 0-based
\* offsets, clamped to the array as JavaScript does.
Slice(arr, begin, end) ==
    LET b == Min(begin, Len(arr))
        e == Max(b, Min(end, Len(arr)))
    IN [j \in 1..(e - b) |-> arr[b + j]]

SliceFrom(arr, begin) == Slice(arr, begin, Len(arr))

\* TypedArray.prototype.set(source, offset).
SetAt(arr, source, offset) ==
    [j \in 1..Len(arr) |->
        IF j > offset /\ j <= offset + Len(source) THEN source[j - offset] ELSE arr[j]]

\* The byte sequences of ordinary bytes up to a length.
RECURSIVE LitSeqs(_)
LitSeqs(len) ==
    IF len = 0 THEN {<<>>}
    ELSE LET shorter == LitSeqs(len - 1)
         IN shorter \cup {<<Lit(v)>> \o d : v \in 0..MaxByte, d \in {e \in shorter : Len(e) = len - 1}}

Plaintexts == LitSeqs(MaxLen)

\* A message's identity inside a symbolic byte: a bijective numeral of its
\* bytes (-1 for a message that holds a byte no plaintext holds).
\* One more than the plaintext byte values, so that a byte outside them has a numeral.
ByteBase == MaxByte + 2

RECURSIVE MsgCode(_)
MsgCode(data) ==
    IF data = <<>> THEN 0
    ELSE IF data[1].t # "lit" THEN -1
    ELSE LET rest == MsgCode(Tail(data))
         IN IF rest < 0 THEN -1 ELSE 1 + data[1].i + ByteBase * rest

RECURSIVE MsgOfCode(_)
MsgOfCode(c) ==
    IF c <= 0 THEN <<>>
    ELSE <<Lit((c - 1) % ByteBase)>> \o MsgOfCode((c - 1) \div ByteBase)

\* Whether arr is, byte for byte, one whole output of a primitive.
IsWhole(arr, t) ==
    /\ Len(arr) > 0
    /\ \A j \in 1..Len(arr) :
        /\ arr[j].t = t /\ arr[j].i = j
        /\ arr[j].k = arr[1].k /\ arr[j].n = arr[1].n
        /\ arr[j].m = arr[1].m /\ arr[j].s = arr[1].s

(***************************************************************************)
(* Outcomes of a call: a value, or a thrown error (a rejected promise).    *)
(***************************************************************************)
Ok(v) == [ok |-> TRUE, val |-> v, err |-> "", at |-> ""]
Throw(name, step) == [ok |-> FALSE, val |-> <<>>, err |-> name, at |-> step]

(***************************************************************************)
(* CryptoKey, and the Web Crypto operations the Crypto class calls.        *)
(***************************************************************************)
CryptoKey(type, name, hash, bits, extractable, usages, id) ==
    [type |-> type, name |-> name, hash |-> hash, bits |-> bits,
     extractable |-> extractable, usages |-> usages, id |-> id]

PublicUsages == {"encrypt", "verify", "wrapKey"}
PrivateUsages == {"decrypt", "sign", "unwrapKey"}

\* crypto.subtle.generateKey for an RSA algorithm: the public key is always
\* extractable, and each half gets the usages that apply to it.
SubtleGenerateRsaKey(params, extractable, usages, id) ==
    [publicKey |-> CryptoKey("public", params.name, params.hash, params.modulusLength,
                             TRUE, usages \cap PublicUsages, id),
     privateKey |-> CryptoKey("private", params.name, params.hash, params.modulusLength,
                              extractable, usages \cap PrivateUsages, id)]

\* crypto.subtle.generateKey({name: 'AES-GCM', length}, extractable, usages).
SubtleGenerateAesKey(length, extractable, usages, id) ==
    CryptoKey("secret", "AES-GCM", "", length, extractable, usages, id)

\* crypto.getRandomValues(new Uint8Array(len)): the draw r decides the bytes.
GetRandomValues(len, r) == [j \in 1..len |-> Byte("rnd", 0, r, 0, 0, j)]

\* The identity of a nonce: the draw it came from, -1 for any other bytes.
NonceOf(iv) == IF IsWhole(iv, "rnd") THEN iv[1].n ELSE -1

AesGcmTagBytes == 16

\* crypto.subtle.encrypt({name: 'AES-GCM', iv}, key, data): the ciphertext,
\* as long as the data, followed by the authentication tag.
SubtleEncryptAesGcm(iv, key, data) ==
    IF key.name # "AES-GCM" \/ "encrypt" \notin key.usages
    THEN Throw("InvalidAccessError", "aes")
    ELSE Ok([j \in 1..(Len(data) + AesGcmTagBytes) |->
                Byte("gcm", key.id, NonceOf(iv), MsgCode(data), 0, j)])

\* crypto.subtle.decrypt({name: 'AES-GCM', iv}, key, data): the plaintext
\* when data is a whole AES-GCM output under this key and nonce; any other
\* data fails the tag check.
SubtleDecryptAesGcm(iv, key, data) ==
    IF key.name # "AES-GCM" \/ "decrypt" \notin key.usages
    THEN Throw("InvalidAccessError", "aes")
    ELSE IF /\ IsWhole(data, "gcm")
            /\ data[1].k = key.id
            /\ data[1].n = NonceOf(iv)
            /\ data[1].n >= 0
            /\ data[1].m >= 0
            /\ Len(data) = Len(MsgOfCode(data[1].m)) + AesGcmTagBytes
         THEN Ok(MsgOfCode(data[1].m))
         ELSE Throw("OperationError", "aes")

\* crypto.subtle.exportKey('raw', key) of an AES key: length / 8 bytes.
SubtleExportRaw(key) ==
    IF ~key.extractable THEN Throw("InvalidAccessError", "export")
    ELSE Ok([j \in 1..(key.bits \div 8) |-> Byte("raw", key.id, 0, 0, 0, j)])

\* crypto.subtle.importKey('raw', bytes, {name: 'AES-GCM'}, extractable, usages).
SubtleImportRawAes(bytes, extractable, usages) ==
    IF Len(bytes) * 8 \notin {128, 192, 256} THEN Throw("DataError", "import")
    ELSE Ok(CryptoKey("secret", "AES-GCM", "", Len(bytes) * 8, extractable, usages,
                      IF IsWhole(bytes, "raw") THEN bytes[1].k ELSE -1))

\* crypto.subtle.encrypt({name: 'RSA-OAEP'}, key, data): modulusLength / 8
\* bytes. The message is identified by the AES key whose raw bytes it is.
SubtleEncryptRsaOaep(params, key, data) ==
    IF key.name # params.name \/ "encrypt" \notin key.usages
    THEN Throw("InvalidAccessError", "wrap")
    ELSE Ok([j \in 1..(key.bits \div 8) |->
                Byte("oaep", key.id, 0,
                     IF IsWhole(data, "raw") THEN data[1].k ELSE -1, Len(data), j)])

\* crypto.subtle.decrypt({name: 'RSA-OAEP'}, key, data): the wrapped bytes
\* when data is a whole RSA-OAEP output under this key's modulus; any other
\* data fails the padding check.
SubtleDecryptRsaOaep(params, key, data) ==
    IF key.name # params.name \/ "decrypt" \notin key.usages
    THEN Throw("InvalidAccessError", "unwrap")
    ELSE IF /\ IsWhole(data, "oaep")
            /\ Len(data) = key.bits \div 8
            /\ data[1].k = key.id
            /\ data[1].m >= 0
         THEN Ok([j \in 1..data[1].s |-> Byte("raw", data[1].m, 0, 0, 0, j)])
         ELSE Throw("OperationError", "unwrap")

\* crypto.subtle.sign({name: 'RSA-PSS', saltLength}, key, data): the draw r
\* is the random salt.
SubtleSign(alg, key, data, r) ==
    IF key.name # alg.name \/ "sign" \notin key.usages
    THEN Throw("InvalidAccessError", "sign")
    ELSE Ok([j \in 1..(key.bits \div 8) |->
                Byte("pss", key.id, r, MsgCode(data), alg.saltLength, j)])

\* crypto.subtle.verify({name: 'RSA-PSS', saltLength}, key, signature, data):
\* true for a whole signature of this data under this key and salt length,
\* whatever the salt; false for any other bytes.
SubtleVerify(alg, key, signature, data) ==
    IF key.name # alg.name \/ "verify" \notin key.usages
    THEN Throw("InvalidAccessError", "verify")
    ELSE Ok(/\ IsWhole(signature, "pss")
            /\ Len(signature) = key.bits \div 8
            /\ signature[1].k = key.id
            /\ signature[1].s = alg.saltLength
            /\ signature[1].m >= 0
            /\ signature[1].m = MsgCode(data))

(***************************************************************************)
(* The Crypto class.                                                       *)
(***************************************************************************)
ModulusLength == 2048
SaltLength == 32
AesKeyLength == 256
IvLength == 12
DecryptIvLength == 12
DecryptKeyLength == 256

\* Parameters for RSA-OAEP key generation (for encryption).
rsaOaepKeyGenParams == [name |-> "RSA-OAEP", modulusLength |-> ModulusLength, hash |-> "SHA-256"]

\* Parameters for RSA-PSS key generation (for signing).
rsaPssKeyGenParams == [name |-> "RSA-PSS", modulusLength |-> ModulusLength, hash |-> "SHA-256"]

\* Parameters for RSA-OAEP encryption/decryption operations.
rsaOaepParams == [name |-> "RSA-OAEP"]

\* Parameters for RSA-PSS signing operations.
signAlgorithm == [name |-> "RSA-PSS", saltLength |-> SaltLength]

generateEncryptionKeys(id) ==
    SubtleGenerateRsaKey(rsaOaepKeyGenParams, TRUE, {"encrypt", "decrypt"}, id)

generateSigningKeys(id) ==
    SubtleGenerateRsaKey(rsaPssKeyGenParams, TRUE, {"sign", "verify"}, id)

\* The bytes encrypt returns: a buffer of the three lengths, filled in place.
Frame(iv, encryptedAesKey, encryptedData) ==
    LET result0 == Uint8Array(Len(iv) + Len(encryptedAesKey) + Len(encryptedData))
        result1 == SetAt(result0, iv, 0)
        result2 == SetAt(result1, encryptedAesKey, Len(iv))
    IN SetAt(result2, encryptedData, Len(iv) + Len(encryptedAesKey))

\* Crypto.encrypt; keyDraw and ivDraw are what the random source gives the
\* call's generateKey and getRandomValues.
encrypt_CachedKey(publicKey, plaintext, keyDraw, ivDraw) ==
    LET aesKey == SubtleGenerateAesKey(AesKeyLength, TRUE, {"encrypt", "decrypt"}, publicKey.id)
        iv == GetRandomValues(IvLength, ivDraw)
        encryptedData == SubtleEncryptAesGcm(iv, aesKey, plaintext)
        exportedAesKey == SubtleExportRaw(aesKey)
        encryptedAesKey == SubtleEncryptRsaOaep(rsaOaepParams, publicKey, exportedAesKey.val)
    IN IF ~encryptedData.ok THEN encryptedData
       ELSE IF ~exportedAesKey.ok THEN exportedAesKey
       ELSE IF ~encryptedAesKey.ok THEN encryptedAesKey
       ELSE Ok(Frame(iv, encryptedAesKey.val, encryptedData.val))

encrypt(publicKey, plaintext, keyDraw, ivDraw) ==
    LET aesKey == SubtleGenerateAesKey(AesKeyLength, TRUE, {"encrypt", "decrypt"}, keyDraw)
        iv == GetRandomValues(IvLength, ivDraw)
        encryptedData == SubtleEncryptAesGcm(iv, aesKey, plaintext)
        exportedAesKey == SubtleExportRaw(aesKey)
        encryptedAesKey == SubtleEncryptRsaOaep(rsaOaepParams, publicKey, exportedAesKey.val)
    IN IF ~encryptedData.ok THEN encryptedData
       ELSE IF ~exportedAesKey.ok THEN exportedAesKey
       ELSE IF ~encryptedAesKey.ok THEN encryptedAesKey
       ELSE Ok(Frame(iv, encryptedAesKey.val, encryptedData.val))

\* Crypto.decrypt: fixed-offset slicing, then unwrap, import, AES-GCM decrypt;
\* the first step that throws ends the call with that error.
decrypt_ShortKeySlice(privateKey, ciphertext) ==
    LET iv == Slice(ciphertext, 0, DecryptIvLength)
        encryptedAesKey == Slice(ciphertext, DecryptIvLength, DecryptKeyLength)
        encryptedData == SliceFrom(ciphertext, DecryptKeyLength)
        decryptedAesKeyBytes == SubtleDecryptRsaOaep(rsaOaepParams, privateKey, encryptedAesKey)
        aesKey == SubtleImportRawAes(decryptedAesKeyBytes.val, TRUE, {"decrypt"})
        decryptedData == SubtleDecryptAesGcm(iv, aesKey.val, encryptedData)
    IN IF ~decryptedAesKeyBytes.ok THEN decryptedAesKeyBytes
       ELSE IF ~aesKey.ok THEN aesKey
       ELSE decryptedData

decrypt_SwallowErrors(privateKey, ciphertext) ==
    LET iv == Slice(ciphertext, 0, DecryptIvLength)
        encryptedAesKey == Slice(ciphertext, DecryptIvLength, DecryptIvLength + DecryptKeyLength)
        encryptedData == SliceFrom(ciphertext, DecryptIvLength + DecryptKeyLength)
        decryptedAesKeyBytes == SubtleDecryptRsaOaep(rsaOaepParams, privateKey, encryptedAesKey)
        aesKey == SubtleImportRawAes(decryptedAesKeyBytes.val, TRUE, {"decrypt"})
        decryptedData == SubtleDecryptAesGcm(iv, aesKey.val, encryptedData)
    IN IF ~decryptedAesKeyBytes.ok THEN Ok(<<>>)
       ELSE IF ~aesKey.ok THEN Ok(<<>>)
       ELSE IF ~decryptedData.ok THEN Ok(<<>>)
       ELSE decryptedData

decrypt(privateKey, ciphertext) ==
    LET iv == Slice(ciphertext, 0, DecryptIvLength)
        encryptedAesKey == Slice(ciphertext, DecryptIvLength, DecryptIvLength + DecryptKeyLength)
        encryptedData == SliceFrom(ciphertext, DecryptIvLength + DecryptKeyLength)
        decryptedAesKeyBytes == SubtleDecryptRsaOaep(rsaOaepParams, privateKey, encryptedAesKey)
        aesKey == SubtleImportRawAes(decryptedAesKeyBytes.val, TRUE, {"decrypt"})
        decryptedData == SubtleDecryptAesGcm(iv, aesKey.val, encryptedData)
    IN IF ~decryptedAesKeyBytes.ok THEN decryptedAesKeyBytes
       ELSE IF ~aesKey.ok THEN aesKey
       ELSE decryptedData

\* Crypto.sign and Crypto.verify.
sign(privateKey, data, salt) == SubtleSign(signAlgorithm, privateKey, data, salt)

verify_OtherSaltLength(publicKey, signature, data) ==
    SubtleVerify([name |-> "RSA-PSS", saltLength |-> 20], publicKey, signature, data)

verify_ThrowOnMismatch(publicKey, signature, data) ==
    LET isValid == SubtleVerify(signAlgorithm, publicKey, signature, data)
    IN IF isValid.ok /\ ~isValid.val THEN Throw("Error", "verify") ELSE isValid

verify(publicKey, signature, data) == SubtleVerify(signAlgorithm, publicKey, signature, data)

(***************************************************************************)
(* Strings and JSON. A string is a sequence of tokens; JSON.stringify      *)
(* writes a value as tokens and JSON.parse reads tokens back, and throws   *)
(* on any sequence that is not exactly one value.                          *)
(***************************************************************************)
Tok(t, s) == [t |-> t, s |-> s]

JValue(j, s, kids) == [j |-> j, s |-> s, kids |-> kids]
JUndefined == JValue("undefined", "", <<>>)
JNull == JValue("null", "", <<>>)
JStr(s) == JValue("str", s, <<>>)
JBool(b) == JValue(IF b THEN "true" ELSE "false", "", <<>>)
\* A number, written as its decimal digits, or "NaN".
JNum(digits) == JValue("num", digits, <<>>)
\* A Date: its time value in milliseconds, written as a number is.
JDate(time) == JValue("date", time, <<>>)

\* Date.prototype.toISOString for the first milliseconds of the epoch.
ToISOString(time) == "1970-01-01T00:00:00.00" \o time \o "Z"
Member(name, value) == [name |-> name, value |-> value]
\* An object holds its members in insertion order, an array its elements.
JObj(members) == JValue("obj", "", members)
JArr(elements) == JValue("arr", "", [e \in 1..Len(elements) |-> Member("", elements[e])])

\* obj[name]: undefined when obj is no object or has no such member.
Get(obj, name) ==
    IF obj.j = "obj" /\ \E e \in 1..Len(obj.kids) : obj.kids[e].name = name
    THEN obj.kids[CHOOSE e \in 1..Len(obj.kids) : obj.kids[e].name = name].value
    ELSE JUndefined

RECURSIVE JSONStringify(_)
RECURSIVE StringifyKids(_, _)
StringifyKids(kids, named) ==
    IF kids = <<>> THEN <<>>
    ELSE (IF kids[1].value.j = "undefined"
          THEN (IF named THEN <<>> ELSE <<Tok("null", "")>>)
          ELSE (IF named THEN <<Tok("key", kids[1].name)>> ELSE <<>>)
                   \o JSONStringify(kids[1].value))
         \o StringifyKids(Tail(kids), named)

JSONStringify(v) ==
    CASE v.j = "obj" -> <<Tok("{", "")>> \o StringifyKids(v.kids, TRUE) \o <<Tok("}", "")>>
      [] v.j = "arr" -> <<Tok("[", "")>> \o StringifyKids(v.kids, FALSE) \o <<Tok("]", "")>>
      [] v.j = "str" -> <<Tok("str", v.s)>>
      [] v.j = "num" -> IF v.s = "NaN" THEN <<Tok("null", "")>> ELSE <<Tok("num", v.s)>>
      [] v.j = "date" -> IF v.s = "NaN" THEN <<Tok("null", "")>>
                         ELSE <<Tok("str", ToISOString(v.s))>>
      [] OTHER -> <<Tok(v.j, "")>>

Parsed(v, rest) == [ok |-> TRUE, val |-> v, rest |-> rest]
Unparsed == [ok |-> FALSE, val |-> JUndefined, rest |-> <<>>]

RECURSIVE ParseValue(_)
RECURSIVE ParseMembers(_, _)
RECURSIVE ParseElements(_, _)
ParseMembers(ts, acc) ==
    IF ts = <<>> THEN Unparsed
    ELSE IF ts[1].t = "}" THEN Parsed(JObj(acc), Tail(ts))
    ELSE IF ts[1].t = "key"
         THEN LET r == ParseValue(Tail(ts))
              IN IF r.ok THEN ParseMembers(r.rest, Append(acc, Member(ts[1].s, r.val)))
                 ELSE Unparsed
    ELSE Unparsed

ParseElements(ts, acc) ==
    IF ts = <<>> THEN Unparsed
    ELSE IF ts[1].t = "]" THEN Parsed(JArr(acc), Tail(ts))
    ELSE LET r == ParseValue(ts)
         IN IF r.ok THEN ParseElements(r.rest, Append(acc, r.val)) ELSE Unparsed

ParseValue(ts) ==
    IF ts = <<>> THEN Unparsed
    ELSE CASE ts[1].t = "{" -> ParseMembers(Tail(ts), <<>>)
           [] ts[1].t = "[" -> ParseElements(Tail(ts), <<>>)
           [] ts[1].t = "str" -> Parsed(JStr(ts[1].s), Tail(ts))
           [] ts[1].t = "num" -> Parsed(JNum(ts[1].s), Tail(ts))
           [] ts[1].t \in {"null", "true", "false"} -> Parsed(JValue(ts[1].t, "", <<>>), Tail(ts))
           [] OTHER -> Unparsed

\* JSON.parse(text): the value, or a SyntaxError.
JSONParse(text) ==
    LET r == ParseValue(text)
    IN IF r.ok /\ r.rest = <<>> THEN Ok(r.val) ELSE Throw("SyntaxError", "parse")

(***************************************************************************)
(* JSON Web Keys: crypto.subtle.exportKey('jwk', ...) and importKey('jwk'). *)
(***************************************************************************)
UsageOrder == <<"encrypt", "decrypt", "sign", "verify", "wrapKey", "unwrapKey">>

JwkAlg(name, hash) ==
    CASE name = "RSA-OAEP" /\ hash = "SHA-256" -> "RSA-OAEP-256"
      [] name = "RSA-PSS" /\ hash = "SHA-256" -> "PS256"
      [] OTHER -> ""

\* The modulus and the private exponent of the key material id, as JWK strings.
ModulusStr(id, bits) == "n" \o ToString(id) \o "/" \o ToString(bits)
ExponentStr(id) == "d" \o ToString(id)

RsaSizes == {rsaOaepKeyGenParams.modulusLength, rsaPssKeyGenParams.modulusLength}

SubtleExportJwk(key) ==
    IF ~key.extractable THEN Throw("InvalidAccessError", "export")
    ELSE Ok(JObj(
        <<Member("alg", JStr(JwkAlg(key.name, key.hash)))>>
        \o (IF key.type = "private" THEN <<Member("d", JStr(ExponentStr(key.id)))>> ELSE <<>>)
        \o <<Member("e", JStr("AQAB")),
             Member("ext", JBool(key.extractable)),
             Member("key_ops", JArr([u \in 1..Len(SelectSeq(UsageOrder, LAMBDA x : x \in key.usages))
                                        |-> JStr(SelectSeq(UsageOrder, LAMBDA x : x \in key.usages)[u])])),
             Member("kty", JStr("RSA")),
             Member("n", JStr(ModulusStr(key.id, key.bits)))>>))

\* The usages a JWK's key_ops array names.
KeyOps(jwk) ==
    LET ops == Get(jwk, "key_ops")
    IN {ops.kids[e].value.s : e \in 1..Len(ops.kids)}

\* The key material a modulus string names: <<id, bits>>, or <<>>.
MaterialOf(n) ==
    LET known == {m \in (1..(nextId - 1)) \X RsaSizes : ModulusStr(m[1], m[2]) = n}
    IN IF known = {} THEN <<>> ELSE CHOOSE m \in known : TRUE

\* crypto.subtle.importKey('jwk', jwk, {name, hash}, extractable, usages) for
\* an RSA algorithm, with the checks in the order Web Crypto makes them.
SubtleImportJwk(jwk, alg, extractable, usages) ==
    LET hasD == Get(jwk, "d").j # "undefined"
        allowed == CASE alg.name = "RSA-OAEP" /\ hasD -> {"decrypt", "unwrapKey"}
                     [] alg.name = "RSA-OAEP" /\ ~hasD -> {"encrypt", "wrapKey"}
                     [] alg.name = "RSA-PSS" /\ hasD -> {"sign"}
                     [] OTHER -> {"verify"}
        material == MaterialOf(Get(jwk, "n").s)
    IN IF jwk.j # "obj" THEN Throw("TypeError", "import")
       ELSE IF ~(usages \subseteq allowed) THEN Throw("SyntaxError", "import")
       ELSE IF Get(jwk, "kty") # JStr("RSA") THEN Throw("DataError", "import")
       ELSE IF Get(jwk, "key_ops").j # "undefined"
               /\ (Get(jwk, "key_ops").j # "arr" \/ ~(usages \subseteq KeyOps(jwk)))
            THEN Throw("DataError", "import")
       ELSE IF Get(jwk, "ext") = JBool(FALSE) /\ extractable THEN Throw("DataError", "import")
       ELSE IF Get(jwk, "alg").j # "undefined"
               /\ Get(jwk, "alg") # JStr(JwkAlg(alg.name, alg.hash))
            THEN Throw("DataError", "import")
       ELSE IF material = <<>> \/ Get(jwk, "e") # JStr("AQAB") THEN Throw("DataError", "import")
       ELSE IF hasD /\ Get(jwk, "d") # JStr(ExponentStr(material[1]))
            THEN Throw("DataError", "import")
       ELSE Ok(CryptoKey(IF hasD THEN "private" ELSE "public", alg.name, alg.hash,
                         material[2], extractable, usages, material[1]))

(***************************************************************************)
(* localStorage, shared by everything that runs on the page.               *)
(***************************************************************************)
NoItems == [k \in {} |-> <<>>]

\* localStorage.getItem(key): the stored string, or null.
GetItem(storage, key) ==
    IF key \in DOMAIN storage THEN [isNull |-> FALSE, s |-> storage[key]]
    ELSE [isNull |-> TRUE, s |-> <<>>]

\* localStorage.setItem(key, value) and localStorage.removeItem(key).
SetItem(storage, key, value) ==
    [k \in DOMAIN storage \cup {key} |-> IF k = key THEN value ELSE storage[k]]

RemoveItem(storage, key) == [k \in DOMAIN storage \ {key} |-> storage[k]]

\* !stored: null and the empty string are falsy.
Falsy(stored) == stored.isNull \/ stored.s = <<>>

(***************************************************************************)
(* LocalStorageKeyStore. A call is a coroutine: it runs to its first await *)
(* when it is made, and each later step runs from one await to the next.   *)
(***************************************************************************)
UserIds == {"alice", "bob"}

\* `crypto_keys_${userId}`
StorageKey_Shared(userId) == "crypto_keys_"

StorageKey(userId) == "crypto_keys_" \o userId

NoKey == CryptoKey("none", "", "", 0, FALSE, {}, 0)
NoPair == [publicKey |-> NoKey, privateKey |-> NoKey]

\* What loadKeyPair returns: null, or { publicKey, privateKey }.
Null == [isNull |-> TRUE, publicKey |-> NoKey, privateKey |-> NoKey]
KeyPairOf(publicKey, privateKey) ==
    [isNull |-> FALSE, publicKey |-> publicKey, privateKey |-> privateKey]
Undefined == Null

Call(op, userId, keyPair, pc) ==
    [op |-> op, userId |-> userId, keyPair |-> keyPair, pc |-> pc,
     publicKeyJwk |-> JUndefined, stored |-> GetItem(NoItems, ""),
     jwkKeyPair |-> JUndefined, publicKey |-> NoKey, res |-> Ok(Undefined)]

Return(call, value) == [call EXCEPT !.pc = "done", !.res = Ok(value)]
Reject(call, error) == [call EXCEPT !.pc = "done", !.res = error]

\* saveKeyPair, from the call to the first await.
saveKeyPair(userId, keyPair) == Call("save", userId, keyPair, "exportPublic")

\* saveKeyPair once the public key's export settles.
saveKeyPairExportedPublic(call) ==
    LET publicKeyJwk == SubtleExportJwk(call.keyPair.publicKey)
    IN IF ~publicKeyJwk.ok THEN Reject(call, publicKeyJwk)
       ELSE [call EXCEPT !.publicKeyJwk = publicKeyJwk.val, !.pc = "exportPrivate"]

\* What saveKeyPair writes: JSON.stringify(storableKeyPair).
Storable_WithoutAlg(publicKeyJwk, privateKeyJwk) ==
    LET Bare(jwk) == JObj(SelectSeq(jwk.kids, LAMBDA m : m.name \notin {"alg", "key_ops"}))
    IN JSONStringify(JObj(<<Member("publicKey", Bare(publicKeyJwk)),
                            Member("privateKey", Bare(privateKeyJwk))>>))

Storable(publicKeyJwk, privateKeyJwk) ==
    JSONStringify(JObj(<<Member("publicKey", publicKeyJwk), Member("privateKey", privateKeyJwk)>>))

\* saveKeyPair once the private key's export settles: the call, and the storage.
saveKeyPairExportedPrivate_WritesPublicHalf(call, storage) ==
    LET privateKeyJwk == SubtleExportJwk(call.keyPair.privateKey)
    IN IF ~privateKeyJwk.ok
       THEN [call |-> Reject(call, privateKeyJwk),
             storage |-> SetItem(storage, StorageKey(call.userId),
                                 JSONStringify(JObj(<<Member("publicKey", call.publicKeyJwk)>>)))]
       ELSE [call |-> Return(call, Undefined),
             storage |-> SetItem(storage, StorageKey(call.userId),
                                 Storable(call.publicKeyJwk, privateKeyJwk.val))]

saveKeyPairExportedPrivate(call, storage) ==
    LET privateKeyJwk == SubtleExportJwk(call.keyPair.privateKey)
    IN IF ~privateKeyJwk.ok THEN [call |-> Reject(call, privateKeyJwk), storage |-> storage]
       ELSE [call |-> Return(call, Undefined),
             storage |-> SetItem(storage, StorageKey(call.userId),
                                 Storable(call.publicKeyJwk, privateKeyJwk.val))]

\* The algorithm loadKeyPair imports both halves under.
LoadAlgorithm == [name |-> "RSA-OAEP", hash |-> "SHA-256"]

\* loadKeyPair's catch block: log, remove the record, return null.
loadKeyPairCatch_KeepRecord(call, storage) ==
    [call |-> Return(call, Null), storage |-> storage, logged |-> 1]

loadKeyPairCatch(call, storage) ==
    [call |-> Return(call, Null),
     storage |-> RemoveItem(storage, StorageKey(call.userId)),
     logged |-> 1]

Running(call, storage) == [call |-> call, storage |-> storage, logged |-> 0]

\* loadKeyPair, from the call to the first await (or to its return).
loadKeyPair(userId, storage) ==
    LET stored == GetItem(storage, StorageKey(userId))
        call == [Call("load", userId, NoPair, "importPublic") EXCEPT !.stored = stored]
        jwkKeyPair == JSONParse(stored.s)
    IN IF Falsy(stored) THEN Running(Return(call, Null), storage)
       ELSE IF ~jwkKeyPair.ok THEN loadKeyPairCatch(call, storage)
       \* jwkKeyPair.publicKey of null: a TypeError
       ELSE IF jwkKeyPair.val.j = "null" THEN loadKeyPairCatch(call, storage)
       ELSE Running([call EXCEPT !.jwkKeyPair = jwkKeyPair.val], storage)

\* loadKeyPair once the public key's import settles.
loadKeyPairImportedPublic(call, storage) ==
    LET publicKey == SubtleImportJwk(Get(call.jwkKeyPair, "publicKey"), LoadAlgorithm,
                                     TRUE, {"encrypt"})
    IN IF ~publicKey.ok THEN loadKeyPairCatch(call, storage)
       ELSE Running([call EXCEPT !.publicKey = publicKey.val, !.pc = "importPrivate"], storage)

\* loadKeyPair once the private key's import settles.
loadKeyPairImportedPrivate(call, storage) ==
    LET privateKey == SubtleImportJwk(Get(call.jwkKeyPair, "privateKey"), LoadAlgorithm,
                                      TRUE, {"decrypt"})
    IN IF ~privateKey.ok THEN loadKeyPairCatch(call, storage)
       ELSE Running(Return(call, KeyPairOf(call.publicKey, privateKey.val)), storage)

\* deleteKeyPair: it has no await.
deleteKeyPair_OtherName(userId, storage) ==
    [call |-> Return(Call("delete", userId, NoPair, "done"), Undefined),
     storage |-> RemoveItem(storage, "crypto_key_" \o userId)]

deleteKeyPair(userId, storage) ==
    [call |-> Return(Call("delete", userId, NoPair, "done"), Undefined),
     storage |-> RemoveItem(storage, StorageKey(userId))]

(***************************************************************************)
(* The HTTP clients (KeyClientImpl) and the key service they talk to.      *)
(***************************************************************************)
\* The identities the clients are called with: URN strings.
UserUrns == {"urn:sm:user:user-with-key", "urn:sm:user:user-without-key"}

\* The Uint8Array values a caller stores as keys.
KeyData == UNION {[1..n -> 0..MaxByte] : n \in 0..MaxLen}

KeysBaseURL == "https://keys.example.com"

\* `${this.baseURL}/keys/${userId}`
KeyUrl(baseURL, userId) == baseURL \o "/keys/" \o userId

\* The service's keyStore when it starts.
InitialKeyStore == [userId \in {"urn:sm:user:user-with-key"} |-> <<1, 2, 3, 4, 5>>]

\* new HttpResponse(body, { status }), and response.ok.
HttpResponse(body, status) == [status |-> status, body |-> body]
NoResponse == HttpResponse(<<>>, 0)
ResponseOk(response) == response.status \in 200..299

\* The status of a failing service: new HttpResponse(null, { status: 500 }).
ServerErrorStatus == 500

\* params.userId of a request to https://keys.example.com/keys/:userId,
\* the empty string when the route does not match the URL.
PathParam(url) ==
    IF \E userId \in UserUrns : url = KeyUrl(KeysBaseURL, userId)
    THEN CHOOSE userId \in UserUrns : url = KeyUrl(KeysBaseURL, userId)
    ELSE ""

\* http.post('https://keys.example.com/keys/:userId', ...): the response, and
\* the keyStore.
PostKeysHandler(url, body, store) ==
    [response |-> HttpResponse(<<>>, 201),
     store |-> [userId \in DOMAIN store \cup {PathParam(url)} |->
                    IF userId = PathParam(url) THEN body ELSE store[userId]]]

\* http.get('https://keys.example.com/keys/:userId', ...). A Uint8Array is
\* truthy whatever its length.
GetKeysHandler(url, store) ==
    IF PathParam(url) \in DOMAIN store
    THEN HttpResponse(store[PathParam(url)], 200)
    ELSE HttpResponse(<<>>, 404)

\* throw new Error(message)
ThrowError(message) == [ok |-> FALSE, val |-> <<>>, err |-> "Error", at |-> "", message |-> message]

\* A client call up to its fetch: the request is on its way. settled holds
\* the calls that had resolved or rejected when this one was made.
Request(op, userId, method, url, body, settled) ==
    [op |-> op, userId |-> userId, method |-> method, url |-> url, body |-> body,
     pc |-> "fetch", response |-> NoResponse, res |-> Ok(Undefined), settled |-> settled]

\* KeyClientImpl.getKey, from the call to the fetch.
getKey(baseURL, userId, settled) ==
    Request("getKey", userId, "GET", KeyUrl(baseURL, userId), <<>>, settled)

\* getKey once the fetch settles.
getKeyFetched(request) ==
    IF ~ResponseOk(request.response)
    THEN Reject(request, ThrowError("Failed to fetch key for user " \o request.userId))
    ELSE [request EXCEPT !.pc = "arrayBuffer"]

\* getKey once response.arrayBuffer() settles.
getKeyBuffered(request) == Return(request, request.response.body)

\* KeyClientImpl.storeKey, from the call to the fetch.
storeKey(baseURL, userId, key, settled) ==
    Request("storeKey", userId, "POST", KeyUrl(baseURL, userId), key, settled)

\* storeKey once the fetch settles.
storeKeyFetched(request) ==
    IF ~ResponseOk(request.response)
    THEN Reject(request, ThrowError("Failed to store key for user " \o request.userId))
    ELSE Return(request, Undefined)

(***************************************************************************)
(* The Crypto class in use: keys are generated, messages are encrypted and *)
(* decrypted, data is signed and verified. A call may be given any key     *)
(* half generated so far.                                                  *)
(***************************************************************************)
Keys == {pairs[p].publicKey : p \in 1..Len(pairs)} \cup {pairs[p].privateKey : p \in 1..Len(pairs)}

Init ==
    /\ pairs = <<>>
    /\ nextId = 1
    /\ encs = <<>>
    /\ lastDec = <<>>
    /\ sigs = <<>>
    /\ lastVer = <<>>
    /\ localStorage = NoItems
    /\ calls = <<>>
    /\ consoleErrors = 0
    /\ keyStore = InitialKeyStore
    /\ requests = <<>>
    /\ fileCalls = <<>>

GenerateEncryptionKeys ==
    /\ Len(pairs) < MaxPairs
    /\ pairs' = Append(pairs, generateEncryptionKeys(nextId))
    /\ nextId' = nextId + 1
    /\ UNCHANGED <<fileCalls, netVars, cryptoLog, storeVars>>

GenerateSigningKeys ==
    /\ Len(pairs) < MaxPairs
    /\ pairs' = Append(pairs, generateSigningKeys(nextId))
    /\ nextId' = nextId + 1
    /\ UNCHANGED <<fileCalls, netVars, cryptoLog, storeVars>>

Encrypt ==
    /\ Len(encs) < MaxEnc
    /\ \E key \in Keys, plaintext \in Plaintexts, ivDraw \in 0..MaxNonce :
        encs' = Append(encs, [key |-> key, plaintext |-> plaintext,
                              res |-> encrypt(key, plaintext, nextId, ivDraw)])
    /\ nextId' = nextId + 1
    /\ UNCHANGED <<fileCalls, netVars, pairs, lastDec, sigs, lastVer, storeVars>>

Decrypt ==
    /\ \E key \in Keys, e \in 1..Len(encs) :
        /\ encs[e].res.ok
        /\ lastDec' = <<[key |-> key, enc |-> e, res |-> decrypt(key, encs[e].res.val)]>>
    /\ UNCHANGED <<fileCalls, netVars, pairs, nextId, encs, sigs, lastVer, storeVars>>

Sign ==
    /\ Len(sigs) < MaxSig
    /\ \E key \in Keys, data \in Plaintexts, salt \in 0..MaxNonce :
        sigs' = Append(sigs, [key |-> key, data |-> data, res |-> sign(key, data, salt)])
    /\ UNCHANGED <<fileCalls, netVars, pairs, nextId, encs, lastDec, lastVer, storeVars>>

Verify ==
    /\ \E key \in Keys, g \in 1..Len(sigs), data \in Plaintexts :
        /\ sigs[g].res.ok
        /\ lastVer' = <<[key |-> key, sig |-> g, data |-> data,
                         res |-> verify(key, sigs[g].res.val, data)]>>
    /\ UNCHANGED <<fileCalls, netVars, pairs, nextId, encs, lastDec, sigs, storeVars>>

Next == GenerateEncryptionKeys \/ GenerateSigningKeys \/ Encrypt \/ Decrypt

Spec == Init /\ [][Next]_vars

NextSign == GenerateEncryptionKeys \/ GenerateSigningKeys \/ Sign \/ Verify

SpecSign == Init /\ [][NextSign]_vars

(***************************************************************************)
(* The key store in use: calls are made for any principal and any key pair *)
(* generated so far, their awaits settle in any order, and other code on   *)
(* the page may put any string where a record is kept.                     *)
(***************************************************************************)
Pending(pc) == {c \in 1..Len(calls) : calls[c].pc = pc}

KeyPairs == {pairs[p] : p \in 1..Len(pairs)}

SaveKeyPairCall ==
    /\ Len(calls) < MaxCalls
    /\ \E userId \in UserIds, keyPair \in KeyPairs :
        calls' = Append(calls, saveKeyPair(userId, keyPair))
    /\ UNCHANGED <<fileCalls, netVars, localStorage, consoleErrors, pairs, nextId, cryptoLog>>

SaveKeyPairExportedPublic ==
    /\ \E c \in Pending("exportPublic") :
        calls' = [calls EXCEPT ![c] = saveKeyPairExportedPublic(calls[c])]
    /\ UNCHANGED <<fileCalls, netVars, localStorage, consoleErrors, pairs, nextId, cryptoLog>>

SaveKeyPairExportedPrivate ==
    /\ \E c \in Pending("exportPrivate") :
        LET next == saveKeyPairExportedPrivate(calls[c], localStorage)
        IN /\ calls' = [calls EXCEPT ![c] = next.call]
           /\ localStorage' = next.storage
    /\ UNCHANGED <<fileCalls, netVars, consoleErrors, pairs, nextId, cryptoLog>>

LoadKeyPairCall ==
    /\ Len(calls) < MaxCalls
    /\ \E userId \in UserIds :
        LET next == loadKeyPair(userId, localStorage)
        IN /\ calls' = Append(calls, next.call)
           /\ localStorage' = next.storage
           /\ consoleErrors' = consoleErrors + next.logged
    /\ UNCHANGED <<fileCalls, netVars, pairs, nextId, cryptoLog>>

LoadKeyPairImportedPublic ==
    /\ \E c \in Pending("importPublic") :
        LET next == loadKeyPairImportedPublic(calls[c], localStorage)
        IN /\ calls' = [calls EXCEPT ![c] = next.call]
           /\ localStorage' = next.storage
           /\ consoleErrors' = consoleErrors + next.logged
    /\ UNCHANGED <<fileCalls, netVars, pairs, nextId, cryptoLog>>

LoadKeyPairImportedPrivate ==
    /\ \E c \in Pending("importPrivate") :
        LET next == loadKeyPairImportedPrivate(calls[c], localStorage)
        IN /\ calls' = [calls EXCEPT ![c] = next.call]
           /\ localStorage' = next.storage
           /\ consoleErrors' = consoleErrors + next.logged
    /\ UNCHANGED <<fileCalls, netVars, pairs, nextId, cryptoLog>>

DeleteKeyPairCall ==
    /\ Len(calls) < MaxCalls
    /\ \E userId \in UserIds :
        LET next == deleteKeyPair(userId, localStorage)
        IN /\ calls' = Append(calls, next.call)
           /\ localStorage' = next.storage
    /\ UNCHANGED <<fileCalls, netVars, consoleErrors, pairs, nextId, cryptoLog>>

\* The strings other code may leave under a record's name: nothing at all, a
\* record cut short, text that is no JSON, JSON that is no key record, and a
\* record whose private half is not a private key.
CorruptStrings(storage, key) ==
    {<<>>, <<Tok("junk", "")>>, <<Tok("null", "")>>, JSONStringify(JObj(<<>>))}
    \cup (IF key \in DOMAIN storage /\ Len(storage[key]) > 1
          THEN {SubSeq(storage[key], 1, Len(storage[key]) - 1)} ELSE {})
    \cup {Storable(SubtleExportJwk(kp.publicKey).val, SubtleExportJwk(kp.publicKey).val) :
            kp \in {q \in KeyPairs : q.publicKey.name = "RSA-OAEP"}}

Corrupt ==
    /\ Len(calls) < MaxCalls
    /\ \E userId \in UserIds :
       \E text \in CorruptStrings(localStorage, StorageKey(userId)) :
        /\ localStorage' = SetItem(localStorage, StorageKey(userId), text)
        /\ calls' = Append(calls, [Call("corrupt", userId, NoPair, "done")
                                     EXCEPT !.stored = [isNull |-> FALSE, s |-> text]])
    /\ UNCHANGED <<fileCalls, netVars, consoleErrors, pairs, nextId, cryptoLog>>

NextStore ==
    \/ GenerateEncryptionKeys \/ GenerateSigningKeys
    \/ SaveKeyPairCall \/ SaveKeyPairExportedPublic \/ SaveKeyPairExportedPrivate
    \/ LoadKeyPairCall \/ LoadKeyPairImportedPublic \/ LoadKeyPairImportedPrivate
    \/ DeleteKeyPairCall \/ Corrupt

SpecStore == Init /\ [][NextStore]_vars

\* Saves and deletes alone.
NextSerial ==
    \/ GenerateEncryptionKeys \/ GenerateSigningKeys
    \/ SaveKeyPairCall \/ SaveKeyPairExportedPublic \/ SaveKeyPairExportedPrivate
    \/ DeleteKeyPairCall

SpecSerial == Init /\ [][NextSerial]_vars

(***************************************************************************)
(* Properties of the Crypto class.                                         *)
(***************************************************************************)
\* The two keys are the halves of one generated encryption key pair.
IsEncryptionPair(pub, priv) ==
    \E p \in 1..Len(pairs) :
        /\ pairs[p].publicKey = pub /\ pairs[p].privateKey = priv
        /\ pub.name = "RSA-OAEP"

\* The two keys are the halves of one generated signing key pair.
IsSigningPair(pub, priv) ==
    \E p \in 1..Len(pairs) :
        /\ pairs[p].publicKey = pub /\ pairs[p].privateKey = priv
        /\ pub.name = "RSA-PSS"

\* C1: decrypting the output of encrypt(pub, P) with the private half of the
\* same encryption key pair returns exactly P, the empty plaintext included.
C1_RoundTrip ==
    \A d \in 1..Len(lastDec) :
        IsEncryptionPair(encs[lastDec[d].enc].key, lastDec[d].key)
            => /\ lastDec[d].res.ok
               /\ lastDec[d].res.val = encs[lastDec[d].enc].plaintext

\* A non-empty plaintext has made the round trip, and the empty plaintext has
\* been encrypted.
C1_Witness ==
    \E d \in 1..Len(lastDec) :
        /\ IsEncryptionPair(encs[lastDec[d].enc].key, lastDec[d].key)
        /\ Len(encs[lastDec[d].enc].plaintext) = MaxLen
        /\ lastDec[d].res.ok
        /\ \E e \in 1..Len(encs) : encs[e].res.ok /\ encs[e].plaintext = <<>>

C3_SignVerify ==
    \A v \in 1..Len(lastVer) :
        (/\ IsSigningPair(lastVer[v].key, sigs[lastVer[v].sig].key)
         /\ lastVer[v].data = sigs[lastVer[v].sig].data)
            => /\ lastVer[v].res.ok
               /\ lastVer[v].res.val = TRUE

\* Two signatures of the same data under the same key differ (their salts
\* differ), and one of them has been verified.
C3_Witness ==
    \E v \in 1..Len(lastVer), g, h \in 1..Len(sigs) :
        /\ IsSigningPair(lastVer[v].key, sigs[g].key)
        /\ lastVer[v].sig = g
        /\ lastVer[v].data = sigs[g].data
        /\ lastVer[v].res.ok
        /\ sigs[h].key = sigs[g].key /\ sigs[h].data = sigs[g].data
        /\ sigs[h].res.ok /\ sigs[h].res.val # sigs[g].res.val

\* C4: verifying a signature of D against different data D' with the public
\* half of the signing key pair returns false: it neither throws nor returns
\* true.
C4_NonMalleable ==
    \A v \in 1..Len(lastVer) :
        (/\ IsSigningPair(lastVer[v].key, sigs[lastVer[v].sig].key)
         /\ lastVer[v].data # sigs[lastVer[v].sig].data)
            => /\ lastVer[v].res.ok
               /\ lastVer[v].res.val = FALSE

C4_Witness ==
    \E v \in 1..Len(lastVer) :
        /\ IsSigningPair(lastVer[v].key, sigs[lastVer[v].sig].key)
        /\ lastVer[v].data # sigs[lastVer[v].sig].data
        /\ lastVer[v].res.ok

\* What an output of encrypt holds: the nonce at its head, and the content
\* key and nonce its AES-GCM part (which ends the output) was made under.
NonceBytes(out) == Slice(out, 0, IvLength)
WrappedContentKey(out) == out[IvLength + 1].m
UsedContentKey(out) == out[Len(out)].k
UsedNonce(out) == out[Len(out)].n

\* C5: over any sequence of encrypt calls, every output carries a 12-byte
\* nonce and wraps the content key it was encrypted under, no two outputs
\* share a content key, and no (content key, nonce) pair is used twice.
C5_Freshness ==
    \A e, f \in 1..Len(encs) :
        (encs[e].res.ok /\ encs[f].res.ok)
            => /\ Len(NonceBytes(encs[e].res.val)) = 12
               /\ IsWhole(NonceBytes(encs[e].res.val), "rnd")
               /\ UsedNonce(encs[e].res.val) = NonceOf(NonceBytes(encs[e].res.val))
               /\ WrappedContentKey(encs[e].res.val) = UsedContentKey(encs[e].res.val)
               /\ e # f =>
                    /\ UsedContentKey(encs[e].res.val) # UsedContentKey(encs[f].res.val)
                    /\ <<UsedContentKey(encs[e].res.val), UsedNonce(encs[e].res.val)>>
                         # <<UsedContentKey(encs[f].res.val), UsedNonce(encs[f].res.val)>>

\* The same plaintext encrypted twice for the same recipient.
C5_Witness ==
    \E e, f \in 1..Len(encs) :
        /\ e # f
        /\ encs[e].res.ok /\ encs[f].res.ok
        /\ encs[e].key = encs[f].key
        /\ encs[e].plaintext = encs[f].plaintext
        /\ Len(encs[e].plaintext) > 0

(***************************************************************************)
(* Properties of the key store.                                            *)
(***************************************************************************)
Loads == {c \in 1..Len(calls) : calls[c].op = "load"}
DoneLoads == {c \in Loads : calls[c].pc = "done"}
DoneSaves == {c \in 1..Len(calls) : calls[c].op = "save" /\ calls[c].pc = "done" /\ calls[c].res.ok}

\* The record saveKeyPair writes for a key pair.
RecordOf(keyPair) ==
    Storable(SubtleExportJwk(keyPair.publicKey).val, SubtleExportJwk(keyPair.privateKey).val)

\* Whether a stored string parses and both its halves import.
Importable(text) ==
    LET jwkKeyPair == JSONParse(text)
    IN /\ jwkKeyPair.ok
       /\ jwkKeyPair.val.j # "null"
       /\ SubtleImportJwk(Get(jwkKeyPair.val, "publicKey"), LoadAlgorithm, TRUE, {"encrypt"}).ok
       /\ SubtleImportJwk(Get(jwkKeyPair.val, "privateKey"), LoadAlgorithm, TRUE, {"decrypt"}).ok

\* The load found a record that cannot be parsed or fails key import.
FoundCorrupted(c) == ~calls[c].stored.isNull /\ ~Importable(calls[c].stored.s)

\* The call returns (or rejects) in this step.
Returns(c) == c \in 1..Len(calls') /\ calls'[c].pc = "done" /\ (c > Len(calls) \/ calls[c].pc # "done")

C7_CorruptionSurfaced ==
    \A c, d \in DoneLoads :
        (FoundCorrupted(c) /\ calls[d].stored.isNull) => calls[c].res # calls[d].res

\* The calls made for a principal are exactly these.
OnlyCalls(userId, cs) == \A c \in 1..Len(calls) : calls[c].userId = userId => c \in cs

\* C8: after saveKeyPair(P, kp) has completed, with no other call for P, a
\* load that reads the record returns kp's public and private keys and the
\* record is still stored.
C8_SaveLoadRoundTrip ==
    \A s \in DoneSaves, c \in DoneLoads :
        (/\ calls[s].userId = calls[c].userId
         /\ OnlyCalls(calls[s].userId, {s, c})
         /\ calls[c].stored = [isNull |-> FALSE, s |-> RecordOf(calls[s].keyPair)])
            => /\ calls[c].res = Ok(KeyPairOf(calls[s].keyPair.publicKey, calls[s].keyPair.privateKey))
               /\ GetItem(localStorage, StorageKey(calls[s].userId)) = calls[c].stored

\* The names under which the key store keeps records of a principal.
NamesOf(userId) == {StorageKey(userId)}

\* C9: after an encryption key pair and a signing key pair have been saved
\* for the same principal, and nothing deleted, both records are stored.
C9_RecordPerRole ==
    \A s, t \in DoneSaves :
        (/\ calls[s].userId = calls[t].userId
         /\ OnlyCalls(calls[s].userId, {s, t})
         /\ calls[s].keyPair.publicKey.name = "RSA-OAEP"
         /\ calls[t].keyPair.publicKey.name = "RSA-PSS")
            => {RecordOf(calls[s].keyPair), RecordOf(calls[t].keyPair)}
                  \subseteq {localStorage[k] : k \in NamesOf(calls[s].userId) \cap DOMAIN localStorage}

\* The storage after the first n calls run one after another, in call order.
RECURSIVE SerialStorage(_)
SerialStorage(n) ==
    IF n = 0 THEN NoItems
    ELSE LET before == SerialStorage(n - 1)
             exported == saveKeyPairExportedPublic(saveKeyPair(calls[n].userId, calls[n].keyPair))
         IN CASE calls[n].op = "save" ->
                   IF exported.pc = "done" THEN before
                   ELSE saveKeyPairExportedPrivate(exported, before).storage
              [] calls[n].op = "delete" -> deleteKeyPair(calls[n].userId, before).storage
              [] OTHER -> before

\* C10: once every save and delete for a principal has completed, the
\* principal's record is what running them one after another, in the order
\* they were called, leaves.
C10_Serialized ==
    \A userId \in UserIds :
        (\A c \in 1..Len(calls) : calls[c].userId = userId => calls[c].pc = "done")
            => GetItem(localStorage, StorageKey(userId))
                 = GetItem(SerialStorage(Len(calls)), StorageKey(userId))

(***************************************************************************)
(* The whole Crypto class in use by the receiver of a message: nothing in  *)
(* the class, and no caller in the repository, orders verify and decrypt.  *)
(***************************************************************************)
\* One message at a time: it is encrypted once and signed once.
EncryptMessage == Len(encs) < MaxSealed /\ Encrypt

SignMessage == Len(sigs) < MaxSealed /\ Sign

NextOpen ==
    \/ GenerateEncryptionKeys \/ GenerateSigningKeys
    \/ EncryptMessage \/ Decrypt \/ SignMessage \/ Verify

SpecOpen == Init /\ [][NextOpen]_vars

\* Some signature made so far verifies under some key and data.
SomeSignatureVerifies ==
    \E g \in 1..Len(sigs), key \in Keys, data \in Plaintexts :
        sigs[g].res.ok /\ verify(key, sigs[g].res.val, data) = Ok(TRUE)

\* C11: Crypto.decrypt is called (the key unwrap is performed) only after a
\* verification has returned true.
C11_VerifyBeforeDecrypt ==
    lastDec # <<>> => (lastVer # <<>> /\ SomeSignatureVerifies)

(***************************************************************************)
(* A message changed on its way. The message the repository sends is a     *)
(* SecureEnvelope: the two identities beside the encrypted bytes. The      *)
(* receiver has Crypto.decrypt for it, whose only inputs are the private   *)
(* key and the bytes that encrypt returned.                                *)
(***************************************************************************)
TamperFields == {"nonce", "wrappedKey", "ciphertext", "senderId", "recipientId"}

\* The 0-based offsets of the first and last byte of a field in the output
\* of the e-th encrypt call.
FieldOffsets(field, e) ==
    LET wrapped == encs[e].key.bits \div 8
    IN CASE field = "nonce" -> {0, IvLength - 1}
         [] field = "wrappedKey" -> {IvLength, IvLength + wrapped - 1}
         [] field = "ciphertext" -> {IvLength + wrapped, Len(encs[e].res.val) - 1}
         [] OTHER -> {}

\* The bytes with the byte at an offset replaced by another one.
ChangedAt(bytes, offset, v) == SetAt(bytes, <<Lit(v)>>, offset)

\* Crypto.decrypt on a message of which one byte of one field was changed.
\* A change to an identity leaves the bytes given to decrypt as they were.
DecryptTampered ==
    /\ \E key \in Keys, e \in 1..Len(encs), field \in TamperFields :
        /\ encs[e].res.ok
        /\ \/ /\ field \in {"senderId", "recipientId"}
              /\ lastDec' = <<[key |-> key, enc |-> e, field |-> field, offset |-> 0,
                               res |-> decrypt(key, encs[e].res.val)]>>
           \/ \E offset \in FieldOffsets(field, e), v \in 0..MaxByte :
                lastDec' = <<[key |-> key, enc |-> e, field |-> field, offset |-> offset,
                              res |-> decrypt(key, ChangedAt(encs[e].res.val, offset, v))]>>
    /\ UNCHANGED <<fileCalls, netVars, pairs, nextId, encs, sigs, lastVer, storeVars>>

NextTamper ==
    \/ GenerateEncryptionKeys \/ GenerateSigningKeys
    \/ EncryptMessage \/ Decrypt \/ DecryptTampered

SpecTamper == Init /\ [][NextTamper]_vars

\* The latest decrypt call was given a tampered message.
Tampered(d) == "field" \in DOMAIN lastDec[d]

\* C12: opening a message of which a byte of the ciphertext, the wrapped
\* key, the nonce, the senderId or the recipientId was changed fails with
\* AuthenticationFailed at the signature check, before any decryption step,
\* and yields no plaintext.
C12_TamperDetected ==
    \A d \in 1..Len(lastDec) :
        (Tampered(d) /\ IsEncryptionPair(encs[lastDec[d].enc].key, lastDec[d].key))
            => /\ ~lastDec[d].res.ok
               /\ lastDec[d].res.err = "AuthenticationFailed"
               /\ lastDec[d].res.at = "verify"

\* The key given to the latest decrypt call is the private key of a generated
\* encryption key pair.
DecryptsWithEncryptionKey(d) == \E pub \in Keys : IsEncryptionPair(pub, lastDec[d].key)

\* C14: a decrypt call whose key unwrap fails ends with an error of kind
\* KeyUnwrapFailed, one whose AES-GCM tag check fails ends with an error of
\* kind TagMismatch, and neither returns plaintext bytes.
C14_FailClosedKinds ==
    \A d \in 1..Len(lastDec) :
        (DecryptsWithEncryptionKey(d) /\ ~lastDec[d].res.ok)
            => /\ lastDec[d].res.val = <<>>
               /\ lastDec[d].res.at = "unwrap" => lastDec[d].res.err = "KeyUnwrapFailed"
               /\ lastDec[d].res.at = "aes" => lastDec[d].res.err = "TagMismatch"

(***************************************************************************)
(* Recipients whose RSA-OAEP keys were not made by this Crypto class:      *)
(* encrypt and decrypt take any CryptoKey, of whatever modulus length.     *)
(***************************************************************************)
RecipientKeySizes == {ModulusLength, 2 * ModulusLength}

\* crypto.subtle.generateKey for an RSA-OAEP pair of a given modulus length.
GenerateKeysOfSize ==
    /\ Len(pairs) < MaxPairs
    /\ \E bits \in RecipientKeySizes :
        pairs' = Append(pairs, SubtleGenerateRsaKey(
                    [rsaOaepKeyGenParams EXCEPT !.modulusLength = bits],
                    TRUE, {"encrypt", "decrypt"}, nextId))
    /\ nextId' = nextId + 1
    /\ UNCHANGED <<fileCalls, netVars, cryptoLog, storeVars>>

NextSizes == GenerateKeysOfSize \/ EncryptMessage \/ Decrypt

SpecSizes == Init /\ [][NextSizes]_vars

\* C13: for RSA-OAEP key pairs of every size, decrypting the output of
\* encrypt(pub, P) with the private half returns P: the nonce, the wrapped
\* key and the ciphertext are found whatever the wrapped key's length.
C13_AnyKeySize ==
    \A d \in 1..Len(lastDec) :
        LET e == encs[lastDec[d].enc]
        IN (IsEncryptionPair(e.key, lastDec[d].key) /\ e.key.bits \in RecipientKeySizes)
            => lastDec[d].res = Ok(e.plaintext)

(***************************************************************************)
(* Key roles.                                                              *)
(***************************************************************************)
\* Key pairs are generated, saved and loaded; nothing else writes the records.
NextRoles ==
    \/ GenerateEncryptionKeys \/ GenerateSigningKeys
    \/ SaveKeyPairCall \/ SaveKeyPairExportedPublic \/ SaveKeyPairExportedPrivate
    \/ LoadKeyPairCall \/ LoadKeyPairImportedPublic \/ LoadKeyPairImportedPrivate

SpecRoles == Init /\ [][NextRoles]_vars

\* The keys that loadKeyPair calls have returned.
LoadedKeys ==
    UNION {{calls[c].res.val.publicKey, calls[c].res.val.privateKey} :
            c \in {d \in DoneLoads : calls[d].res.ok /\ ~calls[d].res.val.isNull}}

\* A pair as generateEncryptionKeys returns it, and as generateSigningKeys does.
HasEncryptionRole(pair) ==
    /\ pair.publicKey.name = "RSA-OAEP" /\ pair.privateKey.name = "RSA-OAEP"
    /\ pair.publicKey.usages = {"encrypt"} /\ pair.privateKey.usages = {"decrypt"}

HasSigningRole(pair) ==
    /\ pair.publicKey.name = "RSA-PSS" /\ pair.privateKey.name = "RSA-PSS"
    /\ pair.publicKey.usages = {"verify"} /\ pair.privateKey.usages = {"sign"}

\* Every Crypto operation of the other role refuses the key.
RefusedByOtherRole(key) ==
    \A data \in Plaintexts :
        /\ key.name = "RSA-PSS" =>
            /\ ~encrypt(key, data, 0, 0).ok
            /\ \A pub \in {k \in Keys : k.name = "RSA-OAEP" /\ k.type = "public"} :
                    ~decrypt(key, encrypt(pub, data, 0, 0).val).ok
        /\ key.name = "RSA-OAEP" =>
            /\ ~sign(key, data, 0).ok
            /\ \A priv \in {k \in Keys : k.name = "RSA-PSS" /\ k.type = "private"} :
                    ~verify(key, sign(priv, data, 0).val, data).ok

\* C15: every generated pair has one role, RSA-OAEP with encrypt/decrypt or
\* RSA-PSS with sign/verify, and its own key material; a key that loadKeyPair
\* returns is a generated key with its algorithm and usages unchanged; and
\* no key is accepted by an operation of the other role.
C15_RoleSeparation ==
    /\ \A p \in 1..Len(pairs) :
        /\ HasEncryptionRole(pairs[p]) \/ HasSigningRole(pairs[p])
        /\ pairs[p].publicKey.id = pairs[p].privateKey.id
        /\ \A q \in 1..Len(pairs) : p # q => pairs[p].publicKey.id # pairs[q].publicKey.id
    /\ LoadedKeys \subseteq Keys
    /\ \A key \in Keys \cup LoadedKeys : RefusedByOtherRole(key)

\* A signing pair has been saved and loaded again: the load returned no key.
C15_Witness ==
    \E s \in DoneSaves, c \in DoneLoads :
        /\ HasSigningRole(calls[s].keyPair)
        /\ calls[c].stored = [isNull |-> FALSE, s |-> RecordOf(calls[s].keyPair)]
        /\ calls[c].res = Ok(Null)
        /\ \E p \in 1..Len(pairs) : HasEncryptionRole(pairs[p])

(***************************************************************************)
(* Signatures that are not well formed: not the modulus' length.           *)
(***************************************************************************)
MalformedShapes == {"empty", "truncated"}

Malformed(signature, shape) ==
    IF shape = "empty" THEN <<>> ELSE Slice(signature, 0, Len(signature) - 1)

\* Crypto.verify given a malformed signature.
VerifyMalformed ==
    /\ \E key \in Keys, g \in 1..Len(sigs), data \in Plaintexts, shape \in MalformedShapes :
        /\ sigs[g].res.ok
        /\ lastVer' = <<[key |-> key, sig |-> g, data |-> data, shape |-> shape,
                         res |-> verify(key, Malformed(sigs[g].res.val, shape), data)]>>
    /\ UNCHANGED <<fileCalls, netVars, pairs, nextId, encs, lastDec, sigs, storeVars>>

NextVerify ==
    \/ GenerateEncryptionKeys \/ GenerateSigningKeys
    \/ SignMessage \/ Verify \/ VerifyMalformed

SpecVerify == Init /\ [][NextVerify]_vars

\* The latest verify call was given a malformed signature.
GivenMalformed(v) == "shape" \in DOMAIN lastVer[v]

\* C16: with the public key of the signing pair, a well-formed signature
\* that does not match the data gives false without an error, and a
\* malformed signature gives an error, not the result false.
C16_MalformedIsError ==
    \A v \in 1..Len(lastVer) :
        IsSigningPair(lastVer[v].key, sigs[lastVer[v].sig].key)
            => /\ (~GivenMalformed(v) /\ lastVer[v].data # sigs[lastVer[v].sig].data)
                    => lastVer[v].res = Ok(FALSE)
               /\ GivenMalformed(v) => ~lastVer[v].res.ok

(***************************************************************************)
(* Deleting a principal's record.                                          *)
(***************************************************************************)
\* The call is made in this step.
Made(c) == c \in 1..Len(calls') /\ c > Len(calls)

\* C17: a deleteKeyPair call returns without an error whether or not the
\* principal has a record, leaves the principal without one, and changes
\* nothing when there was none (so deleting twice is deleting once); the
\* record stays absent until a save (or a write from outside) puts one
\* there; and a loadKeyPair that finds no record returns null.
C17_Delete ==
    /\ [][\A c \in 1..Len(calls') :
            (Made(c) /\ calls'[c].op = "delete") =>
                /\ calls'[c].pc = "done"
                /\ calls'[c].res = Ok(Undefined)
                /\ StorageKey(calls'[c].userId) \notin DOMAIN localStorage'
                /\ StorageKey(calls'[c].userId) \notin DOMAIN localStorage
                        => localStorage' = localStorage]_vars
    /\ [][\A userId \in UserIds :
            (StorageKey(userId) \notin DOMAIN localStorage
                /\ StorageKey(userId) \in DOMAIN localStorage')
                => \E c \in 1..Len(calls') :
                        /\ Returns(c)
                        /\ calls'[c].userId = userId
                        /\ calls'[c].op \in {"save", "corrupt"}]_vars
    /\ [](\A c \in DoneLoads : calls[c].stored.isNull => calls[c].res = Ok(Null))

\* A saved record was deleted, a second delete followed, and a load after
\* them found no record and returned null.
C17_Witness ==
    \E s \in DoneSaves, d, c \in 1..Len(calls) :
        /\ s < d /\ d < c
        /\ calls[s].userId = calls[d].userId /\ calls[d].userId = calls[c].userId
        /\ calls[d].op = "delete" /\ calls[d].res = Ok(Undefined)
        /\ calls[c].op \in {"load", "delete"} /\ calls[c].pc = "done"
        /\ calls[c].op = "load" => (calls[c].stored.isNull /\ calls[c].res = Ok(Null))
        /\ StorageKey(calls[d].userId) \notin DOMAIN localStorage

(***************************************************************************)
(* Principals are independent.                                             *)
(***************************************************************************)
\* The call is made, or moves on, in this step.
Steps(c) == Made(c) \/ (c \in 1..Len(calls) /\ calls'[c] # calls[c])

\* C18: a step of saveKeyPair, loadKeyPair (its removal of a corrupted
\* record included) or deleteKeyPair for one principal leaves the stored
\* entry of every other principal as it was: an entry changes only in a
\* step of a call for its own principal.
C18_PrincipalsIndependent ==
    [][\A c \in 1..Len(calls'), Q \in UserIds :
            (Steps(c) /\ calls'[c].userId # Q)
                => GetItem(localStorage', StorageKey(Q)) = GetItem(localStorage, StorageKey(Q))]_vars

\* A load removed a corrupted record of one principal while the record
\* saved for the other principal stayed stored.
C18_Witness ==
    \E s \in DoneSaves, c \in DoneLoads :
        /\ calls[s].userId # calls[c].userId
        /\ s < c
        /\ FoundCorrupted(c)
        /\ StorageKey(calls[c].userId) \notin DOMAIN localStorage
        /\ GetItem(localStorage, StorageKey(calls[s].userId))
                = [isNull |-> FALSE, s |-> RecordOf(calls[s].keyPair)]

(***************************************************************************)
(* Saving key pairs whose halves cannot all be exported.                   *)
(***************************************************************************)
\* A caller's own crypto.subtle.generateKey(params, false, usages): the
\* private key of the pair is not extractable.
GenerateNonExtractableKeys ==
    /\ Len(pairs) < MaxPairs
    /\ pairs' = Append(pairs, SubtleGenerateRsaKey(rsaOaepKeyGenParams, FALSE,
                                                   {"encrypt", "decrypt"}, nextId))
    /\ nextId' = nextId + 1
    /\ UNCHANGED <<fileCalls, netVars, cryptoLog, storeVars>>

\* saveKeyPair given a generated pair, or a CryptoKeyPair the caller put
\* together with the pair's private key in both places.
SaveKeyPairOfKeys ==
    /\ Len(calls) < MaxCalls
    /\ \E userId \in UserIds, keyPair \in KeyPairs :
       \E publicKey \in {keyPair.publicKey, keyPair.privateKey} :
        calls' = Append(calls, saveKeyPair(userId, [keyPair EXCEPT !.publicKey = publicKey]))
    /\ UNCHANGED <<fileCalls, netVars, localStorage, consoleErrors, pairs, nextId, cryptoLog>>

NextHalves ==
    \/ GenerateEncryptionKeys \/ GenerateNonExtractableKeys
    \/ SaveKeyPairOfKeys \/ SaveKeyPairExportedPublic \/ SaveKeyPairExportedPrivate

SpecHalves == Init /\ [][NextHalves]_vars

\* The stored string is an object with an exported key under publicKey and
\* an exported key under privateKey.
HoldsBothHalves(text) ==
    LET storableKeyPair == JSONParse(text)
    IN /\ storableKeyPair.ok
       /\ \A half \in {"publicKey", "privateKey"} :
            /\ Get(storableKeyPair.val, half).j = "obj"
            /\ Get(Get(storableKeyPair.val, half), "n").j = "str"

\* The saves that were rejected.
RejectedSaves == {c \in 1..Len(calls) : calls[c].op = "save" /\ calls[c].pc = "done" /\ ~calls[c].res.ok}

\* C19: every entry saveKeyPair wrote holds both exported halves of the pair
\* of one save that returned, and a step of a saveKeyPair call that does not
\* return without an error (the export of either half failing included)
\* leaves localStorage as it was.
C19_NoHalfFormedRecord ==
    /\ [](\A userId \in UserIds :
            StorageKey(userId) \in DOMAIN localStorage =>
                /\ HoldsBothHalves(localStorage[StorageKey(userId)])
                /\ \E s \in DoneSaves :
                    /\ calls[s].userId = userId
                    /\ SubtleExportJwk(calls[s].keyPair.publicKey).ok
                    /\ SubtleExportJwk(calls[s].keyPair.privateKey).ok
                    /\ localStorage[StorageKey(userId)] = RecordOf(calls[s].keyPair))
    /\ [][\A c \in 1..Len(calls') :
            (Steps(c) /\ calls'[c].op = "save" /\ ~(Returns(c) /\ calls'[c].res.ok))
                => localStorage' = localStorage]_vars

\* One save was rejected at the export of the public half and another at
\* the export of the private half, and the entry of their principal is the
\* record that a save called before them wrote.
C19_Witness ==
    \E s \in DoneSaves, a, b \in RejectedSaves :
        /\ s < a /\ s < b
        /\ calls[a].userId = calls[s].userId /\ calls[b].userId = calls[s].userId
        /\ ~SubtleExportJwk(calls[a].keyPair.publicKey).ok
        /\ SubtleExportJwk(calls[b].keyPair.publicKey).ok
        /\ ~SubtleExportJwk(calls[b].keyPair.privateKey).ok
        /\ GetItem(localStorage, StorageKey(calls[s].userId))
                = [isNull |-> FALSE, s |-> RecordOf(calls[s].keyPair)]

(***************************************************************************)
(* The key client in use, against the key service.                         *)
(***************************************************************************)
Settled == {r \in 1..Len(requests) : requests[r].pc = "done"}
At(pc, op) == {r \in 1..Len(requests) : requests[r].pc = pc /\ requests[r].op = op}

GetKeyCall ==
    /\ Len(requests) < MaxRequests
    /\ \E userId \in UserUrns :
        requests' = Append(requests, getKey(KeysBaseURL, userId, Settled))
    /\ UNCHANGED <<fileCalls, keyStore, pairs, nextId, cryptoLog, storeVars>>

StoreKeyCall ==
    /\ Len(requests) < MaxRequests
    /\ \E userId \in UserUrns, key \in KeyData :
        requests' = Append(requests, storeKey(KeysBaseURL, userId, key, Settled))
    /\ UNCHANGED <<fileCalls, keyStore, pairs, nextId, cryptoLog, storeVars>>

\* The service handles a POST /keys/:userId.
KeyServicePost ==
    /\ \E r \in At("fetch", "storeKey") :
        LET next == PostKeysHandler(requests[r].url, requests[r].body, keyStore)
        IN /\ keyStore' = next.store
           /\ requests' = [requests EXCEPT ![r].response = next.response, ![r].pc = "fetched"]
    /\ UNCHANGED <<fileCalls, pairs, nextId, cryptoLog, storeVars>>

\* The service handles a GET /keys/:userId.
KeyServiceGet ==
    /\ \E r \in At("fetch", "getKey") :
        requests' = [requests EXCEPT ![r].response = GetKeysHandler(requests[r].url, keyStore),
                                     ![r].pc = "fetched"]
    /\ UNCHANGED <<fileCalls, keyStore, pairs, nextId, cryptoLog, storeVars>>

\* The service fails: it answers a request with status 500 and does nothing.
KeyServiceFails ==
    /\ \E r \in At("fetch", "getKey") \cup At("fetch", "storeKey") :
        requests' = [requests EXCEPT ![r].response = HttpResponse(<<>>, ServerErrorStatus),
                                     ![r].pc = "fetched"]
    /\ UNCHANGED <<fileCalls, keyStore, pairs, nextId, cryptoLog, storeVars>>

GetKeyFetched ==
    /\ \E r \in At("fetched", "getKey") :
        requests' = [requests EXCEPT ![r] = getKeyFetched(requests[r])]
    /\ UNCHANGED <<fileCalls, keyStore, pairs, nextId, cryptoLog, storeVars>>

GetKeyBuffered ==
    /\ \E r \in At("arrayBuffer", "getKey") :
        requests' = [requests EXCEPT ![r] = getKeyBuffered(requests[r])]
    /\ UNCHANGED <<fileCalls, keyStore, pairs, nextId, cryptoLog, storeVars>>

StoreKeyFetched ==
    /\ \E r \in At("fetched", "storeKey") :
        requests' = [requests EXCEPT ![r] = storeKeyFetched(requests[r])]
    /\ UNCHANGED <<fileCalls, keyStore, pairs, nextId, cryptoLog, storeVars>>

NextKeyClient ==
    \/ GetKeyCall \/ StoreKeyCall
    \/ KeyServicePost \/ KeyServiceGet \/ KeyServiceFails
    \/ GetKeyFetched \/ GetKeyBuffered \/ StoreKeyFetched

SpecKeyClient == Init /\ [][NextKeyClient]_vars

\* The calls of an operation that have resolved or rejected.
DoneRequests(op) == At("done", op)

\* The store is the latest for its identity when the get is made: it had
\* resolved by then, every other store for the identity had settled before
\* it was made or is made after the get settled.
LatestStoreBefore(s, g) ==
    /\ s \in requests[g].settled
    /\ requests[s].op = "storeKey" /\ requests[s].res.ok
    /\ requests[s].userId = requests[g].userId
    /\ \A t \in 1..Len(requests) :
        (t # s /\ requests[t].op = "storeKey" /\ requests[t].userId = requests[g].userId)
            => (t \in requests[s].settled \/ (requests[t].pc = "done" /\ g \in requests[t].settled))

\* After a storeKey has resolved, a getKey the service answers resolves
\* with the bytes of the latest store.
StoredKeyIsFetched ==
    \A g \in DoneRequests("getKey"), s \in 1..Len(requests) :
        (LatestStoreBefore(s, g) /\ requests[g].response.status # ServerErrorStatus)
            => requests[g].res = Ok(requests[s].body)

\* A getKey answered with 404 rejects, its error names the identity, and it
\* has no bytes.
MissingKeyRejects ==
    \A g \in DoneRequests("getKey") :
        requests[g].response.status = 404
            => /\ ~requests[g].res.ok
               /\ requests[g].res.val = <<>>
               /\ \E prefix \in {"Failed to fetch key for user ", "Key for URN "},
                     suffix \in {"", " not found"} :
                        requests[g].res.message = prefix \o requests[g].userId \o suffix

\* The not-found error of getKey.
KeyNotFound(userId) == ThrowError("Key for URN " \o userId \o " not found")

\* A storeKey answered with a status outside 200..299 rejects.
FailedStoreRejects ==
    \A s \in DoneRequests("storeKey") :
        ~ResponseOk(requests[s].response) => ~requests[s].res.ok

\* The rejection getKey gives when the service fails.
ServiceFailure(g) ==
    getKeyFetched([requests[g] EXCEPT !.response = HttpResponse(<<>>, ServerErrorStatus),
                                      !.pc = "fetched"]).res

\* C20: after storeKey(u, k) has resolved, getKey(u) resolves with exactly
\* the bytes k of the latest store for u; a getKey answered with 404 never
\* resolves with bytes and rejects with the not-found error naming the
\* identity, which is not the error of a failed service; and storeKey
\* rejects when the service answers with a non-success status.
C20_KeyClient ==
    /\ StoredKeyIsFetched
    /\ FailedStoreRejects
    /\ MissingKeyRejects
    /\ \A g \in DoneRequests("getKey") :
        requests[g].response.status = 404
            => /\ requests[g].res = KeyNotFound(requests[g].userId)
               /\ requests[g].res # ServiceFailure(g)

(***************************************************************************)
(* The routing client (RoutingClientImpl) and the routing service.         *)
(***************************************************************************)
RoutingBaseURL == "https://routing.example.com"

\* `${this.baseURL}/send`
SendUrl(baseURL) == baseURL \o "/send"

\* A SecureEnvelope with the given senderId.
Envelope(senderId) ==
    JObj(<<Member("senderId", senderId),
           Member("recipientId", JStr("recipient-1")),
           Member("encryptedSymmetricKey", JStr("base64-encrypted-key")),
           Member("encryptedData", JStr("base64-encrypted-data")),
           Member("signature", JStr("signature-data"))>>)

\* The values send is called with: an envelope, an envelope whose senderId
\* is undefined or null, and null.
Envelopes == {Envelope(JStr("sender-1")), Envelope(JUndefined), Envelope(JNull), JNull}

\* http.post('https://routing.example.com/send', ...): request.json(), then
\* body && typeof body === 'object' && 'senderId' in body. A body that is
\* not JSON makes the handler throw, which the server answers with 500.
PostSendHandler(text) ==
    LET body == JSONParse(text)
    IN IF ~body.ok THEN HttpResponse(<<>>, ServerErrorStatus)
       ELSE IF body.val.j = "obj" /\ \E e \in 1..Len(body.val.kids) : body.val.kids[e].name = "senderId"
            THEN HttpResponse(<<>>, 202)
            ELSE HttpResponse(<<>>, 400)

\* RoutingClientImpl.send, from the call to the fetch.
send(baseURL, envelope, settled) ==
    Request("send", "", "POST", SendUrl(baseURL), JSONStringify(envelope), settled)

\* send once the fetch settles.
sendFetched_SwallowErrors(request) == Return(request, Undefined)

sendFetched(request) ==
    IF ~ResponseOk(request.response)
    THEN Reject(request, ThrowError("Failed to send envelope"))
    ELSE Return(request, Undefined)

SendCall ==
    /\ Len(requests) < MaxRequests
    /\ \E envelope \in Envelopes :
        requests' = Append(requests, send(RoutingBaseURL, envelope, Settled))
    /\ UNCHANGED <<fileCalls, keyStore, pairs, nextId, cryptoLog, storeVars>>

\* The service handles a POST /send.
RoutingServicePost ==
    /\ \E r \in At("fetch", "send") :
        /\ requests[r].url = SendUrl(RoutingBaseURL)
        /\ requests' = [requests EXCEPT ![r].response = PostSendHandler(requests[r].body),
                                        ![r].pc = "fetched"]
    /\ UNCHANGED <<fileCalls, keyStore, pairs, nextId, cryptoLog, storeVars>>

\* The service fails: it answers a send with status 500.
RoutingServiceFails ==
    /\ \E r \in At("fetch", "send") :
        requests' = [requests EXCEPT ![r].response = HttpResponse(<<>>, ServerErrorStatus),
                                     ![r].pc = "fetched"]
    /\ UNCHANGED <<fileCalls, keyStore, pairs, nextId, cryptoLog, storeVars>>

SendFetched ==
    /\ \E r \in At("fetched", "send") :
        requests' = [requests EXCEPT ![r] = sendFetched(requests[r])]
    /\ UNCHANGED <<fileCalls, keyStore, pairs, nextId, cryptoLog, storeVars>>

NextRouting == SendCall \/ RoutingServicePost \/ RoutingServiceFails \/ SendFetched

SpecRouting == Init /\ [][NextRouting]_vars

\* C21: a send that has settled resolved with undefined exactly when the
\* service answered with a status in 200..299, and rejected with the error
\* 'Failed to send envelope' for every other status; and a send whose fetch
\* has been answered makes no further request: it keeps the answer it got
\* and, once settled, its outcome.
C21_SendOutcome ==
    /\ [](\A s \in DoneRequests("send") :
            /\ ResponseOk(requests[s].response) <=> requests[s].res = Ok(Undefined)
            /\ ~ResponseOk(requests[s].response)
                    <=> requests[s].res = ThrowError("Failed to send envelope"))
    /\ [][\A s \in At("fetched", "send") \cup DoneRequests("send") :
            /\ requests'[s].pc \in {"fetched", "done"}
            /\ requests'[s].response = requests[s].response
            /\ requests[s].pc = "done" => requests'[s] = requests[s]]_vars

\* Sends have settled after the statuses 202, 400 (an envelope without
\* senderId) and 500: the first resolved, the other two rejected.
C21_Witness ==
    \E a, b, c \in DoneRequests("send") :
        /\ requests[a].response.status = 202 /\ requests[a].res.ok
        /\ requests[b].response.status = 400 /\ ~requests[b].res.ok
        /\ requests[b].body = JSONStringify(Envelope(JUndefined))
        /\ requests[c].response.status = ServerErrorStatus /\ ~requests[c].res.ok

(***************************************************************************)
(* LocalStorageProvider: the application state kept in localStorage.       *)
(***************************************************************************)
\* Time values of valid Dates; an Invalid Date has the time value NaN.
Times == {"0", "1"}
Dates == {JDate(time) : time \in Times \cup {"NaN"}}

\* new Date(value)
NewDate(value) ==
    CASE value.j = "date" -> value
      [] value.j = "num" -> JDate(value.s)
      [] value.j \in {"null", "false"} -> JDate("0")
      [] value.j = "true" -> JDate("1")
      [] value.j = "str" /\ (\E time \in Times : value.s = ToISOString(time))
            -> JDate(CHOOSE time \in Times : value.s = ToISOString(time))
      [] OTHER -> JDate("NaN")

\* obj[name] = value
Set(obj, name, value) ==
    IF \E e \in 1..Len(obj.kids) : obj.kids[e].name = name
    THEN [obj EXCEPT !.kids = [e \in 1..Len(obj.kids) |->
                IF obj.kids[e].name = name THEN Member(name, value) ELSE obj.kids[e]]]
    ELSE [obj EXCEPT !.kids = Append(obj.kids, Member(name, value))]

\* Whether a value has properties that can be assigned to.
IsObject(value) == value.j \in {"obj", "arr"}

\* Application states: meta.createdAt is one date, and every list is empty
\* or has one element, whose dates are another date.
Location(createdAt) ==
    JObj(<<Member("id", JStr("loc-1")), Member("name", JStr("Cafe")),
           Member("createdAt", createdAt)>>)
Person(createdAt) ==
    JObj(<<Member("id", JStr("per-1")), Member("name", JStr("Ann")),
           Member("createdAt", createdAt)>>)
Intention(createdAt, startTime, endTime) ==
    JObj(<<Member("id", JStr("int-1")), Member("action", JStr("meet")),
           Member("startTime", startTime), Member("endTime", endTime),
           Member("createdAt", createdAt)>>)
ApplicationState(locations, people, intentions, createdAt) ==
    JObj(<<Member("locations", JArr(locations)), Member("people", JArr(people)),
           Member("intentions", JArr(intentions)),
           Member("user", JObj(<<Member("id", JStr("user-123")), Member("name", JStr("Test User"))>>)),
           Member("meta", JObj(<<Member("version", JNum("1")), Member("createdAt", createdAt)>>))>>)

States ==
    {ApplicationState(<<>>, <<>>, <<>>, createdAt) : createdAt \in Dates}
    \cup {ApplicationState(<<Location(date)>>, <<Person(date)>>,
                           <<Intention(date, createdAt, date)>>, createdAt) :
            createdAt \in Dates, date \in Dates}

\* The names application state is written under.
Paths == {"action-intention-state.json", "crypto_keys_alice"}

\* What getManifest returns: null, or { path, size, lastModified }.
NoManifest == [isNull |-> TRUE, path |-> "", size |-> 0, lastModified |-> JUndefined]
FileManifest(path, size, lastModified) ==
    [isNull |-> FALSE, path |-> path, size |-> size, lastModified |-> lastModified]

\* LocalStorageProvider.getManifest.
getManifest(path, storage) ==
    LET item == GetItem(storage, path)
        state == JSONParse(item.s)
    IN IF Falsy(item) THEN Ok(NoManifest)
       ELSE IF ~state.ok THEN state
       ELSE IF Get(state.val, "meta").j \in {"undefined", "null"} \/ state.val.j = "null"
            THEN Throw("TypeError", "meta")
       ELSE Ok(FileManifest(path, Len(item.s),
                            NewDate(Get(Get(state.val, "meta"), "createdAt"))))

\* list.forEach(element => { element[field] = new Date(element[field]) })
\* over the fields, in their order.
RECURSIVE ReviveFields(_, _)
ReviveFields(element, fields) ==
    IF fields = <<>> THEN element
    ELSE ReviveFields(Set(element, fields[1], NewDate(Get(element, fields[1]))), Tail(fields))

ReviveEach(list, fields) ==
    [list EXCEPT !.kids = [e \in 1..Len(list.kids) |->
                Member(list.kids[e].name, ReviveFields(list.kids[e].value, fields))]]

\* The lists readFile walks, and the fields it revives in their elements.
RevivedLists ==
    <<[name |-> "intentions", fields |-> <<"createdAt", "startTime", "endTime">>],
      [name |-> "locations", fields |-> <<"createdAt">>],
      [name |-> "people", fields |-> <<"createdAt">>]>>

RECURSIVE ReviveLists(_, _)
ReviveLists(state, lists) ==
    IF lists = <<>> THEN Ok(state)
    ELSE LET list == Get(state, lists[1].name)
         IN IF list.j # "arr" \/ \E e \in 1..Len(list.kids) : ~IsObject(list.kids[e].value)
            THEN Throw("TypeError", lists[1].name)
            ELSE ReviveLists(Set(state, lists[1].name, ReviveEach(list, lists[1].fields)),
                             Tail(lists))

\* LocalStorageProvider.readFile.
readFile(path, storage) ==
    LET item == GetItem(storage, path)
        state == JSONParse(item.s)
        meta == Get(state.val, "meta")
    IN IF Falsy(item) THEN ThrowError("File not found in localStorage")
       ELSE IF ~state.ok THEN state
       ELSE IF ~IsObject(state.val) \/ ~IsObject(meta) THEN Throw("TypeError", "meta")
       ELSE ReviveLists(Set(state.val, "meta",
                            Set(meta, "createdAt", NewDate(Get(meta, "createdAt")))),
                        RevivedLists)

\* LocalStorageProvider.writeFile: the storage after it.
writeFile(path, state, storage) == SetItem(storage, path, JSONStringify(state))

\* A provider call and its outcome; item is what the call read.
FileCall(op, path, state, item, res) ==
    [op |-> op, path |-> path, state |-> state, item |-> item, res |-> res]

WriteFileCall ==
    /\ Len(fileCalls) < MaxFileCalls
    /\ \E path \in Paths, state \in States :
        /\ localStorage' = writeFile(path, state, localStorage)
        /\ fileCalls' = Append(fileCalls, FileCall("writeFile", path, state,
                                                   GetItem(localStorage, path), Ok(Undefined)))
    /\ UNCHANGED <<calls, consoleErrors, pairs, nextId, cryptoLog, netVars>>

ReadFileCall ==
    /\ Len(fileCalls) < MaxFileCalls
    /\ \E path \in Paths :
        fileCalls' = Append(fileCalls, FileCall("readFile", path, JUndefined,
                                                GetItem(localStorage, path),
                                                readFile(path, localStorage)))
    /\ UNCHANGED <<storeVars, pairs, nextId, cryptoLog, netVars>>

GetManifestCall ==
    /\ Len(fileCalls) < MaxFileCalls
    /\ \E path \in Paths :
        fileCalls' = Append(fileCalls, FileCall("getManifest", path, JUndefined,
                                                GetItem(localStorage, path),
                                                getManifest(path, localStorage)))
    /\ UNCHANGED <<storeVars, pairs, nextId, cryptoLog, netVars>>

NextFiles == WriteFileCall \/ ReadFileCall \/ GetManifestCall

SpecFiles == Init /\ [][NextFiles]_vars

\* The provider calls of an operation.
FileCalls(op) == {c \in 1..Len(fileCalls) : fileCalls[c].op = op}

\* The write is the latest to the call's path before the call.
LatestWriteBefore(w, c) ==
    /\ w \in FileCalls("writeFile") /\ w < c
    /\ fileCalls[w].path = fileCalls[c].path
    /\ \A v \in FileCalls("writeFile") :
        (v < c /\ fileCalls[v].path = fileCalls[c].path) => v <= w

\* readFile after writeFile(path, S) returns S, and getManifest the path, a
\* positive size and S.meta.createdAt.
WrittenStateIsRead ==
    \A c \in 1..Len(fileCalls), w \in 1..Len(fileCalls) :
        LatestWriteBefore(w, c) =>
            /\ fileCalls[c].op = "readFile" => fileCalls[c].res = Ok(fileCalls[w].state)
            /\ fileCalls[c].op = "getManifest" =>
                /\ fileCalls[c].res.ok
                /\ ~fileCalls[c].res.val.isNull
                /\ fileCalls[c].res.val.path = fileCalls[c].path
                /\ fileCalls[c].res.val.size > 0
                /\ fileCalls[c].res.val.lastModified
                        = Get(Get(fileCalls[w].state, "meta"), "createdAt")

\* On a path never written, readFile rejects and getManifest returns null.
MissingFileIsReported ==
    \A c \in 1..Len(fileCalls) :
        (\A w \in FileCalls("writeFile") : ~(w < c /\ fileCalls[w].path = fileCalls[c].path)) =>
            /\ fileCalls[c].op = "readFile"
                    => fileCalls[c].res = ThrowError("File not found in localStorage")
            /\ fileCalls[c].op = "getManifest" => fileCalls[c].res = Ok(NoManifest)

\* C22: after writeFile(path, S), readFile(path) returns a state equal to S
\* with every date field a Date, and getManifest(path) a manifest with that
\* path, a positive size and lastModified equal to S.meta.createdAt; on a
\* path never written readFile rejects with 'File not found in
\* localStorage' and getManifest returns null.
C22_StateRoundTrip == WrittenStateIsRead /\ MissingFileIsReported

(***************************************************************************)
(* loadKeyPair's cleanup while a save is under way.                        *)
(***************************************************************************)
\* The save and the load are the only key store calls for their principal,
\* but for outside writes made before both.
OnlySaveAndLoad(s, c) ==
    /\ calls[s].userId = calls[c].userId
    /\ \A d \in 1..Len(calls) :
        (calls[d].userId = calls[s].userId /\ d \notin {s, c})
            => (calls[d].op = "corrupt" /\ d < s /\ d < c)

\* C23: in every interleaving of a loadKeyPair with a saveKeyPair of an
\* encryption pair for the same principal, with no deleteKeyPair, once both
\* have finished the saved record is stored and can be loaded, also when
\* the load had read an older corrupted record before the save wrote.
C23_CleanupKeepsSavedRecord ==
    \A s \in DoneSaves, c \in DoneLoads :
        (OnlySaveAndLoad(s, c) /\ HasEncryptionRole(calls[s].keyPair))
            => /\ GetItem(localStorage, StorageKey(calls[s].userId))
                    = [isNull |-> FALSE, s |-> RecordOf(calls[s].keyPair)]
               /\ Importable(RecordOf(calls[s].keyPair))

(***************************************************************************)
(* LocalStorageProvider's key methods, a step at a time: the call as it    *)
(* stands (pc "call" when it is being made), and the storage, give the     *)
(* call after the step, the storage and the console.error lines.           *)
(***************************************************************************)
ProviderStepped(call, storage, logged) == [call |-> call, storage |-> storage, logged |-> logged]

\* LocalStorageProvider.saveKeyPair.
ProviderSaveKeyPair(call, storage) ==
    LET publicKeyJwk == SubtleExportJwk(call.keyPair.publicKey)
        privateKeyJwk == SubtleExportJwk(call.keyPair.privateKey)
        storableKeyPair == JObj(<<Member("publicKey", call.publicKeyJwk),
                                  Member("privateKey", privateKeyJwk.val)>>)
    IN CASE call.pc = "call" -> ProviderStepped([call EXCEPT !.pc = "exportPublic"], storage, 0)
         [] call.pc = "exportPublic" ->
                IF ~publicKeyJwk.ok
                THEN ProviderStepped([call EXCEPT !.pc = "done", !.res = publicKeyJwk], storage, 0)
                ELSE ProviderStepped([call EXCEPT !.publicKeyJwk = publicKeyJwk.val,
                                                  !.pc = "exportPrivate"], storage, 0)
         [] call.pc = "exportPrivate" ->
                IF ~privateKeyJwk.ok
                THEN ProviderStepped([call EXCEPT !.pc = "done", !.res = privateKeyJwk], storage, 0)
                ELSE ProviderStepped([call EXCEPT !.pc = "done", !.res = Ok(Undefined)],
                                     SetItem(storage, "crypto_keys_" \o call.userId,
                                             JSONStringify(storableKeyPair)), 0)

\* LocalStorageProvider.loadKeyPair.
ProviderLoadKeyPair(call, storage) ==
    LET stored == GetItem(storage, "crypto_keys_" \o call.userId)
        jwkKeyPair == JSONParse(stored.s)
        algorithm == [name |-> "RSA-OAEP", hash |-> "SHA-256"]
        publicKey == SubtleImportJwk(Get(call.jwkKeyPair, "publicKey"), algorithm, TRUE, {"encrypt"})
        privateKey == SubtleImportJwk(Get(call.jwkKeyPair, "privateKey"), algorithm, TRUE, {"decrypt"})
        Caught(c) == ProviderStepped([c EXCEPT !.pc = "done", !.res = Ok(Null)],
                                     RemoveItem(storage, "crypto_keys_" \o call.userId), 1)
    IN CASE call.pc = "call" ->
                IF Falsy(stored)
                THEN ProviderStepped([call EXCEPT !.stored = stored, !.pc = "done", !.res = Ok(Null)],
                                     storage, 0)
                ELSE IF ~jwkKeyPair.ok \/ jwkKeyPair.val.j = "null"
                     THEN Caught([call EXCEPT !.stored = stored])
                     ELSE ProviderStepped([call EXCEPT !.stored = stored,
                                                       !.jwkKeyPair = jwkKeyPair.val,
                                                       !.pc = "importPublic"], storage, 0)
         [] call.pc = "importPublic" ->
                IF ~publicKey.ok THEN Caught(call)
                ELSE ProviderStepped([call EXCEPT !.publicKey = publicKey.val,
                                                  !.pc = "importPrivate"], storage, 0)
         [] call.pc = "importPrivate" ->
                IF ~privateKey.ok THEN Caught(call)
                ELSE ProviderStepped([call EXCEPT !.pc = "done",
                                         !.res = Ok(KeyPairOf(call.publicKey, privateKey.val))],
                                     storage, 0)

\* LocalStorageProvider.deleteKeyPair.
ProviderDeleteKeyPair_OwnPrefix(call, storage) ==
    ProviderStepped([call EXCEPT !.pc = "done", !.res = Ok(Undefined)],
                    RemoveItem(storage, "provider_keys_" \o call.userId), 0)

ProviderDeleteKeyPair(call, storage) ==
    ProviderStepped([call EXCEPT !.pc = "done", !.res = Ok(Undefined)],
                    RemoveItem(storage, "crypto_keys_" \o call.userId), 0)

\* The step LocalStorageProvider makes where LocalStorageKeyStore made the
\* step of call c: from the same call and the same storage.
ProviderStep(c) ==
    LET call == IF Made(c) THEN Call(calls'[c].op, calls'[c].userId, calls'[c].keyPair, "call")
                ELSE calls[c]
    IN CASE call.op = "save" -> ProviderSaveKeyPair(call, localStorage)
         [] call.op = "load" -> ProviderLoadKeyPair(call, localStorage)
         [] call.op = "delete" -> ProviderDeleteKeyPair(call, localStorage)

\* C24: started on equal storage, every step of a saveKeyPair, loadKeyPair
\* or deleteKeyPair call of LocalStorageKeyStore is the step
\* LocalStorageProvider makes: the same call state and result, the same
\* storage contents and the same logging; so the two return the same
\* results and leave equal storage after every sequence of calls.
C24_SameSteps ==
    [][\A c \in 1..Len(calls') :
            (Steps(c) /\ calls'[c].op \in {"save", "load", "delete"})
                => /\ calls'[c] = ProviderStep(c).call
                   /\ localStorage' = ProviderStep(c).storage
                   /\ consoleErrors' = consoleErrors + ProviderStep(c).logged]_vars

\* A pair has been saved and is stored, and a load has found a record that
\* parsed and did not import, logged it and cleaned up.
C24_Witness ==
    /\ consoleErrors > 0
    /\ \E s \in DoneSaves, c \in DoneLoads :
        /\ FoundCorrupted(c)
        /\ calls[c].jwkKeyPair # JUndefined
        /\ StorageKey(calls[s].userId) \in DOMAIN localStorage

(***************************************************************************)
(* Key records and application state in the one localStorage.              *)
(***************************************************************************)
\* Key store calls and file calls share the bound on calls.
RoomForCall == Len(calls) + Len(fileCalls) < MaxCalls

SaveKeyPairShared == RoomForCall /\ SaveKeyPairCall
LoadKeyPairShared == RoomForCall /\ LoadKeyPairCall
DeleteKeyPairShared == RoomForCall /\ DeleteKeyPairCall
WriteFileShared == RoomForCall /\ WriteFileCall
ReadFileShared == RoomForCall /\ ReadFileCall

NextShared ==
    \/ GenerateEncryptionKeys
    \/ SaveKeyPairShared \/ SaveKeyPairExportedPublic \/ SaveKeyPairExportedPrivate
    \/ LoadKeyPairShared \/ LoadKeyPairImportedPublic \/ LoadKeyPairImportedPrivate
    \/ DeleteKeyPairShared
    \/ WriteFileShared \/ ReadFileShared

SpecShared == Init /\ [][NextShared]_vars

\* C25: a writeFile step, whatever its path, leaves the entry of every
\* userId's key record as it was, and a step of saveKeyPair, loadKeyPair or
\* deleteKeyPair, whatever its userId, leaves the entry under every path as
\* it was.
C25_NoDisturbance ==
    [][/\ fileCalls' # fileCalls =>
            \A userId \in UserIds :
                GetItem(localStorage', StorageKey(userId)) = GetItem(localStorage, StorageKey(userId))
       /\ calls' # calls =>
            \A path \in Paths : GetItem(localStorage', path) = GetItem(localStorage, path)]_vars

====
